---- MODULE Spec2Model ----
(***************************************************************************)
(* A model of the piece-exchange engine of the BitTorrent leecher:         *)
(* torrent/p2p.go (DownloadFromPeer, StartDownload, ReceiveMessage,        *)
(* HasPiece) and torrent/utils.go (GetTotalSize, BuildFileInfo).           *)
(*                                                                         *)
(* Bytes.  A byte buffer is a sequence of runs [src, len]: len consecutive *)
(* bytes of the torrent's flat stream starting at stream offset src, or,   *)
(* with src = Junk, len bytes that occur nowhere in the stream.  The       *)
(* content of the stream is taken to be generic (no two different ranges   *)
(* hold the same bytes) and SHA-1 to be collision free, so two buffers     *)
(* have the same digest exactly when their merged runs are the same.       *)
(***************************************************************************)
EXTENDS Integers, Sequences, FiniteSets, TLC

\* ------------------------------------------------------------------------
\* Bounds of the model
\* ------------------------------------------------------------------------

\* Number of entries of Torrent.Peers when StartDownload takes its snapshot.
MaxPeers == 2

\* Keep-alives the well-behaved remote peers interleave in one run, all told.
MaxKeepAlive == 1

\* Turns of the loop of RefreshPeer in one run.
MaxCycles == 1

\* Trackers SendTrackerResponse contacts in one call.
MaxTrackers == 2

\* ------------------------------------------------------------------------
\* Program constants
\* ------------------------------------------------------------------------

blockSize == 16384

MaxMessageLength == 1048576

SemCapacity == 10

\* tracker.go line 210: the connect attempts of SendUDPTrackerRequest
MaxAttempts == 3

Choke == 0

Unchoke == 1

Interested == 2

NotInterested == 3

Have == 4

Bitfield == 5

Request == 6

Piece == 7

Cancel == 8

\* ------------------------------------------------------------------------
\* Byte buffers
\* ------------------------------------------------------------------------

\* the src of a run of bytes that are not bytes of the torrent's stream
Junk == 0 - 1

Max(a, b) == IF a >= b THEN a ELSE b

Min(a, b) == IF a <= b THEN a ELSE b

RECURSIVE DataLen(_)
DataLen(d) == IF d = <<>> THEN 0 ELSE Head(d).len + DataLen(Tail(d))

\* append(a, b...)
Append2(a, b) == a \o b

RECURSIVE Merge(_)
Merge(d) ==
    IF Len(d) <= 1 THEN d
    ELSE LET a == d[1]
             b == d[2]
         IN IF a.src # Junk /\ b.src = a.src + a.len
            THEN Merge(<<[src |-> a.src, len |-> a.len + b.len]>> \o Tail(Tail(d)))
            ELSE <<a>> \o Merge(Tail(d))

\* d[from:to], a Go slice expression on a byte buffer
RECURSIVE Slice(_, _, _)
Slice(d, from, to) ==
    IF d = <<>> \/ to <= 0 \/ from >= to THEN <<>>
    ELSE LET r == Head(d)
             lo == Max(from, 0)
             hi == Min(to, r.len)
             rest == Slice(Tail(d), from - r.len, to - r.len)
         IN IF lo < hi
            THEN <<[src |-> IF r.src = Junk THEN Junk ELSE r.src + lo,
                    len |-> hi - lo]>> \o rest
            ELSE rest

\* sha1.Sum(data): the digest of a buffer, which identifies its bytes
sha1Sum(d) == Merge(d)

\* ------------------------------------------------------------------------
\* State
\* ------------------------------------------------------------------------

VARIABLES
    Info,        \* Torrent.Info: [PieceLength, Length, Files, Pieces]
    Downloaded,  \* Torrent.Downloaded
    remote,      \* what the remote end of each connection does
    pc,          \* position of each DownloadFromPeer call
    Choked,      \* peer.Choked of each session's Peer
    PeerBitfield,\* peer.Bitfield of each session's Peer (Nil or bytes)
    pieceIndex,  \* DownloadFromPeer's pieceIndex
    offset,      \* DownloadFromPeer's offset
    data,        \* DownloadFromPeer's data
    pieceChan,   \* StartDownload's pieceChan
    closed,      \* whether pieceChan has been closed
    wg,          \* StartDownload's wg counter
    sem,         \* slots of StartDownload's sem in use
    spawned,     \* peers the spawn loop of StartDownload has gone through
    completed,   \* StartDownload's completed map
    writeLog,    \* the WriteAt calls made on the output files
    faulty,      \* the output files on which WriteAt returns an error
    out,         \* the output files of StartDownload and their handles, a record
    mu,          \* Torrent's two mutexes and who is inside their sections, a record
    mainpc,      \* position of StartDownload
    ret,         \* what StartDownload returned
    TorrentPeers,\* Torrent.Peers
    dialed,      \* the endpoints PerformHandshake has called DialTimeout on
    hsOpen,      \* the connections PerformHandshake opened and did not close
    tracker,     \* the peer lists the trackers may answer with
    net,         \* what a handshake attempt may meet on the network
    hsPeers,        \* ConnectToPeers' peers, the candidates of the running call
    hsNext,      \* candidates the loop of ConnectToPeers has gone through
    hsRun,       \* the candidates whose goroutine is in PerformHandshake
    hsSem,       \* slots of ConnectToPeers' sem in use
    hsWg,        \* ConnectToPeers' wg counter
    cpc,         \* position of the thread that connects (main, then RefreshPeer)
    cycle,       \* ConnectToPeers calls started so far
    trk,         \* the state of the tracker client, a record of the fields below
    meta         \* the .torrent file and what Parse made of it, a record

hsVars == <<TorrentPeers, dialed, hsOpen, tracker, net, hsPeers, hsNext, hsRun, hsSem, hsWg,
            cpc, cycle>>

connVars == <<hsVars, trk, meta>>

\* what each tracker answers, in the order SendTrackerResponse contacts them
trackers == trk.trackers

\* trackers the loops of SendTrackerResponse have gone through
contacted == trk.contacted

\* SendTrackerResponse's allPeers
allPeers == trk.allPeers

\* SendTrackerResponse's finalInterval
finalInterval == trk.finalInterval

\* what SendTrackerResponse returned, once it has
response == trk.response

vars == <<Info, Downloaded, remote, pc, Choked, PeerBitfield, pieceIndex, offset,
          data, pieceChan, closed, wg, sem, spawned, completed, writeLog, faulty,
          out, mu, mainpc, ret, connVars>>

sessVars == <<pc, Choked, PeerBitfield, pieceIndex, offset, data>>

mainVars == <<spawned, completed, writeLog, faulty, out, mu, mainpc, ret>>

\* file.Handle of each of Torrent.Files: "nil", "open" or "closed"
handles == out.handles

\* the files f.Truncate has sized
sized == out.sized

\* the call of the file creation loop that fails, <<file, call>>, if one does
fail == out.fail

\* a mutex nobody holds
Free == 0 - 1

\* the goroutine of main, which runs StartDownload, as the holder of a mutex;
\* session s and handshake k hold one as s and k
Main == 0

\* Torrent.DownloadMutex: Free or its holder
DownloadMutex == mu.DownloadMutex

\* Torrent.PeersMutex: Free or its holder
PeersMutex == mu.PeersMutex

\* the sessions inside the range loop of the assignment step (lines 471-478),
\* each with the index it reads next: pairs <<s, i>>
scan == mu.scan

Peers == 1..MaxPeers

\* len(peers) of the snapshot StartDownload takes of Torrent.Peers
NumPeers == Len(pc)

\* ------------------------------------------------------------------------
\* Torrent metadata
\* ------------------------------------------------------------------------

RECURSIVE SumSeq(_)
SumSeq(q) == IF q = <<>> THEN 0 ELSE Head(q) + SumSeq(Tail(q))

\* GetTotalSize
GetTotalSize(info) ==
    IF Len(info.Files) = 0 THEN info.Length ELSE SumSeq(info.Files)

\* The torrent's creator cuts the flat stream into pieces of PieceLength bytes,
\* the last one holding what is left.
NumPiecesOf(info) ==
    (GetTotalSize(info) + info.PieceLength - 1) \div info.PieceLength

TrueLength(info, i) ==
    IF i < NumPiecesOf(info) - 1 THEN info.PieceLength
    ELSE GetTotalSize(info) - (NumPiecesOf(info) - 1) * info.PieceLength

TrueData(info, i) ==
    <<[src |-> i * info.PieceLength, len |-> TrueLength(info, i)]>>

\* the "pieces" value of the info dictionary: one digest per piece
PiecesOf(info) ==
    [k \in 1..NumPiecesOf(info) |-> sha1Sum(TrueData(info, k - 1))]

MkInfo(pl, length, files) ==
    LET i0 == [PieceLength |-> pl, Length |-> length, Files |-> files]
    IN [PieceLength |-> pl, Length |-> length, Files |-> files,
        Pieces |-> PiecesOf(i0)]

\* The torrents the model is run on. A single file of two pieces: the first has
\* two blocks, the last is short.
SingleFile == MkInfo(2 * blockSize, 2 * blockSize + 7232, <<>>)

\* Three files of 10, 3 and 9 bytes in pieces of 16 bytes: the first piece
\* crosses both file boundaries, the last piece is short (6 bytes).
MultiFile == MkInfo(16, 0, <<10, 3, 9>>)

\* InitializePieces
PieceLength == Info.PieceLength

NumPieces == Len(Info.Pieces)

PieceHashes == [i \in 0..(NumPieces - 1) |-> Info.Pieces[i + 1]]

Pieces == 0..(NumPieces - 1)

\* BuildFileInfo: Torrent.Files, as a sequence of [Length, Offset]
RECURSIVE FileInfos(_, _)
FileInfos(entries, off) ==
    IF entries = <<>> THEN <<>>
    ELSE <<[Length |-> Head(entries), Offset |-> off]>>
         \o FileInfos(Tail(entries), off + Head(entries))

BuildFileInfo(info) ==
    IF Len(info.Files) = 0
    THEN <<[Length |-> info.Length, Offset |-> 0]>>
    ELSE FileInfos(info.Files, 0)

Files == BuildFileInfo(Info)

\* ------------------------------------------------------------------------
\* Messages
\* ------------------------------------------------------------------------

\* a nil []byte
Nil == <<0 - 1>>

\* What arrives on a connection at one ReceiveMessage call: a read failure, or a
\* frame of a length prefix and that many bytes, the first the message id. bits
\* is the payload of a Bitfield, block the payload of a Piece after its 8 bytes
\* of index and begin.
ErrFrame == [err |-> TRUE, length |-> 0, ID |-> 0, bits |-> <<>>, block |-> <<>>]

KeepAliveFrame ==
    [err |-> FALSE, length |-> 0, ID |-> 0, bits |-> <<>>, block |-> <<>>]

TooLargeFrame ==
    [err |-> FALSE, length |-> MaxMessageLength + 1, ID |-> Piece, bits |-> <<>>,
     block |-> <<>>]

\* a message of exactly 1 MiB: a Have with an oversized payload
LargestFrame ==
    [err |-> FALSE, length |-> MaxMessageLength, ID |-> Have, bits |-> <<>>,
     block |-> <<>>]

PlainFrame(id) ==
    [err |-> FALSE, length |-> 1, ID |-> id, bits |-> <<>>, block |-> <<>>]

HaveFrame ==
    [err |-> FALSE, length |-> 5, ID |-> Have, bits |-> <<>>, block |-> <<>>]

\* Have(index): the payload is the index, 4 bytes
HaveMessage(index) ==
    [err |-> FALSE, length |-> 5, ID |-> Have, bits |-> <<>>, block |-> <<>>,
     index |-> index]

BitfieldFrame(b) ==
    [err |-> FALSE, length |-> 1 + Len(b), ID |-> Bitfield, bits |-> b,
     block |-> <<>>]

PieceFrame(blk) ==
    [err |-> FALSE, length |-> 1 + 8 + DataLen(blk), ID |-> Piece, bits |-> <<>>,
     block |-> blk]

\* a Piece message cut short: 4 bytes of payload
ShortPieceFrame ==
    [err |-> FALSE, length |-> 1 + 4, ID |-> Piece, bits |-> <<>>, block |-> <<>>]

\* a Piece message as the peer wrote it: index and begin are the first 8 bytes
\* of the payload, blk the bytes after them
PieceMessage(index, begin, blk) ==
    [err |-> FALSE, length |-> 1 + 8 + DataLen(blk), ID |-> Piece, bits |-> <<>>,
     block |-> blk, index |-> index, begin |-> begin]

\* a ReceiveMessage without the length limit
ReceiveUnlimited(f) ==
    IF f.err THEN [err |-> TRUE, nil |-> TRUE, ID |-> 0, plen |-> 0,
                   bits |-> <<>>, block |-> <<>>]
    ELSE IF f.length = 0
    THEN [err |-> FALSE, nil |-> FALSE, ID |-> 0, plen |-> 0, bits |-> <<>>,
          block |-> <<>>]
    ELSE [err |-> FALSE, nil |-> FALSE, ID |-> f.ID, plen |-> f.length - 1,
          bits |-> f.bits, block |-> f.block]

\* ReceiveMessage: (msg, err). A keep-alive comes back as &Message{}, a message
\* that is not nil and whose ID is the zero value.
ReceiveMessage(f) ==
    IF f.err THEN [err |-> TRUE, nil |-> TRUE, ID |-> 0, plen |-> 0,
                   bits |-> <<>>, block |-> <<>>]
    ELSE IF f.length = 0
    THEN [err |-> FALSE, nil |-> FALSE, ID |-> 0, plen |-> 0, bits |-> <<>>,
          block |-> <<>>]
    ELSE IF f.length > MaxMessageLength
    THEN [err |-> TRUE, nil |-> TRUE, ID |-> 0, plen |-> 0, bits |-> <<>>,
          block |-> <<>>]
    ELSE [err |-> FALSE, nil |-> FALSE, ID |-> f.ID, plen |-> f.length - 1,
          bits |-> f.bits, block |-> f.block]

\* a bitfield test that counts the pieces of a byte from its low bit
HasPieceLsb(bitfield, index) ==
    IF bitfield = Nil THEN FALSE
    ELSE LET byteIndex == index \div 8
             bitIndex == index % 8
         IN IF byteIndex >= Len(bitfield) THEN FALSE
            ELSE (bitfield[byteIndex + 1] \div (2 ^ bitIndex)) % 2 = 1

\* HasPiece
HasPiece(bitfield, index) ==
    IF bitfield = Nil THEN FALSE
    ELSE LET byteIndex == index \div 8
             bitIndex == index % 8
         IN IF byteIndex >= Len(bitfield) THEN FALSE
            ELSE (bitfield[byteIndex + 1] \div (2 ^ (7 - bitIndex))) % 2 = 1

\* ------------------------------------------------------------------------
\* The remote peers
\* ------------------------------------------------------------------------

\* The Bitfield payload of a peer that has both pieces of the torrent, and those
\* of the peers that have the first piece only and the second piece only.
SeedBitfield == <<192>>

BitfieldPayloads == { <<192>>, <<128>>, <<64>> }

\* The wire format of a Bitfield payload: piece i is bit 7 - i mod 8 of byte
\* i / 8, the high bit of the first byte being piece 0.
BitSet(bf, i) ==
    /\ i \div 8 + 1 <= Len(bf)
    /\ (bf[i \div 8 + 1] \div (2 ^ (7 - (i % 8)))) % 2 = 1

AnyRemote == [kind |-> "any", has |-> <<>>, sent |-> 0, ka |-> 0]

GoodRemote(b) == [kind |-> "good", has |-> b, sent |-> 0, ka |-> 0]

FlakyRemote(b) == [kind |-> "flaky", has |-> b, sent |-> 0, ka |-> 0]

\* a peer that is gone since its handshake: every write on the connection fails
DeadRemote == [kind |-> "dead", has |-> <<>>, sent |-> 0, ka |-> 0]

\* a peer that never unchokes and sends a keep-alive whenever one is read
IdlerRemote == [kind |-> "idler", has |-> <<>>, sent |-> 0, ka |-> 0]

\* a peer that sends nothing: neither Bitfield nor Unchoke nor keep-alives
MuteRemote == [kind |-> "mute", has |-> <<>>, sent |-> 0, ka |-> 0]

\* A peer that has the pieces of b at first and gets the others while the
\* session runs: it sends its Bitfield, then Unchoke, answers each Request, and
\* announces each piece it gets with a Have. has is what it has announced or
\* will announce in its Bitfield.
LateRemote(b) == [kind |-> "late", has |-> b, sent |-> 0, ka |-> 0]

\* the bitfield bf with the bit of piece i set
WithPiece(bf, i) ==
    IF BitSet(bf, i) THEN bf
    ELSE [bf EXCEPT ![i \div 8 + 1] = @ + 2 ^ (7 - (i % 8))]

\* pieceLength of DownloadFromPeer (lines 487-495)
pieceLengthOf(index) ==
    IF index = NumPieces - 1
    THEN IF Info.Length % PieceLength = 0 THEN PieceLength
         ELSE Info.Length % PieceLength
    ELSE PieceLength

\* a remaining that is not cut to the block size
remainingUncut(index, off) == pieceLengthOf(index) - off

\* remaining of DownloadFromPeer: the length asked for in the Request at offset
remainingOf(index, off) == Min(pieceLengthOf(index) - off, blockSize)

\* lines 506-509: the payload of the Request for the block at off of piece index
RequestPayload(index, off) ==
    [index |-> index, begin |-> off, length |-> remainingOf(index, off)]

\* the bytes of the stream a Request(index, begin, length) asks for
StreamBlock(index, begin, length) ==
    LET n == Min(length, TrueLength(Info, index) - begin)
    IN IF n > 0 THEN <<[src |-> index * PieceLength + begin, len |-> n]>>
       ELSE <<>>

\* The answers to the outstanding Request of session s: the bytes asked for,
\* as many bytes that are not those, or a message cut short.
GoodPiece(s) ==
    LET blk == StreamBlock(pieceIndex[s], offset[s],
                           remainingOf(pieceIndex[s], offset[s]))
    IN IF blk = <<>> THEN {} ELSE { PieceFrame(blk) }

JunkPiece(s) ==
    PieceFrame(<<[src |-> Junk, len |-> remainingOf(pieceIndex[s], offset[s])]>>)

\* the (index, begin) pairs of the blocks of the torrent
Blocks ==
    { <<i, b>> \in Pieces \X { k * blockSize : k \in 0..(PieceLength \div blockSize) } :
         b < pieceLengthOf(i) }

\* Piece messages that do not answer the outstanding Request of session s: the
\* bytes of another block of the torrent, under its own index and begin
StrayPieces(s) ==
    { PieceMessage(x[1], x[2], StreamBlock(x[1], x[2], remainingOf(x[1], x[2]))) :
         x \in { y \in Blocks : y # <<pieceIndex[s], offset[s]>> } }

\* A peer of kind "any" has every piece and sends anything at any time, a
\* failing read included. A peer of kind "good" sends its Bitfield, then
\* Unchoke, then answers each Request with the bytes asked for, may interleave
\* keep-alives (MaxKeepAlive of them in a run), and is otherwise silent (the
\* read then fails on its deadline).
\* A peer of kind "flaky" does the same without keep-alives until it has
\* answered one Request; its connection is then down (sent = 3).
\* a seed that sends a keep-alive while it serves a piece and an Unchoke after
\* each piece, and whose messages take their time on the network
InTurnRemote(b) == [kind |-> "inturn", has |-> b, sent |-> 0, ka |-> 0]

\* Session s waits for the last block of its piece, after a keep-alive, with
\* pieceChan full.
Stalled(s) ==
    /\ pc[s] = "recv"
    /\ remote[s].ka = 1
    /\ offset[s] + blockSize >= TrueLength(Info, pieceIndex[s])
    /\ Len(pieceChan) >= Len(Info.Pieces)

\* The messages of the peers of kind "inturn" arrive one session at a time:
\* those for session s when every session before it has returned or is stalled.
Turn(s) == \A t \in 1..(s - 1) : pc[t] = "done" \/ Stalled(t)

\* A peer of kind "idler" sends keep-alives and nothing else, each of them
\* within the read deadline; a peer of kind "mute" sends nothing at all.
\* A peer of kind "late" does what a "good" one does, on a connection whose
\* writes may fail.
ScriptFrames(s) ==
    IF remote[s].kind = "idler" THEN { KeepAliveFrame }
    ELSE IF remote[s].kind = "mute" THEN {}
    ELSE IF remote[s].kind = "inturn"
    THEN IF ~Turn(s) THEN {}
         ELSE IF remote[s].sent = 0 THEN { BitfieldFrame(remote[s].has) }
         ELSE IF pc[s] = "recv"
         THEN GoodPiece(s) \cup (IF remote[s].ka = 0 THEN { KeepAliveFrame } ELSE {})
         ELSE { PlainFrame(Unchoke) }
    ELSE IF remote[s].sent = 0 THEN { BitfieldFrame(remote[s].has) }
    ELSE IF remote[s].sent = 1 THEN { PlainFrame(Unchoke) }
    ELSE IF remote[s].sent = 2 /\ pc[s] = "recv" THEN GoodPiece(s)
    ELSE {}

\* the keep-alives the scripted peers have sent so far
KeepAlivesSent == SumSeq([s \in Peers |-> remote[s].ka])

Frames(s) ==
    IF remote[s].kind # "any"
    THEN ScriptFrames(s)
         \cup (IF remote[s].kind \in { "good", "late" }
                  /\ KeepAlivesSent < MaxKeepAlive
               THEN { KeepAliveFrame }
               ELSE {})
         \cup (IF ScriptFrames(s) = {} /\ remote[s].kind # "inturn" THEN { ErrFrame }
               ELSE {})
    ELSE { ErrFrame, TooLargeFrame, LargestFrame, KeepAliveFrame,
           PlainFrame(Choke), PlainFrame(Unchoke), HaveFrame }
         \cup { BitfieldFrame(SeedBitfield) }
         \cup (IF pc[s] = "recv"
               THEN GoodPiece(s) \cup { JunkPiece(s), ShortPieceFrame }
               ELSE {})

\* the remote peer after it has sent f
Sent(r, f) ==
    IF r.kind \in { "any", "idler" } \/ f.err THEN r
    ELSE IF f.length = 0 THEN [r EXCEPT !.ka = r.ka + 1]
    ELSE IF f.ID = Unchoke /\ r.kind = "inturn" THEN [r EXCEPT !.sent = 2, !.ka = 0]
    ELSE IF f.ID = Bitfield THEN [r EXCEPT !.sent = 1]
    ELSE IF f.ID = Unchoke THEN [r EXCEPT !.sent = 2]
    ELSE IF f.ID = Piece /\ r.kind = "flaky" THEN [r EXCEPT !.sent = 3]
    ELSE IF f.ID = Have /\ r.kind = "late"
    THEN [r EXCEPT !.has = WithPiece(r.has, f.index)]
    ELSE r

\* SendMessage's result: whether its three writes succeed. A connection that
\* is up takes every write; one that is down may still take one.
SendOutcomes(s) ==
    IF remote[s].kind \in { "good", "idler", "mute", "inturn" }
       \/ (remote[s].kind = "flaky" /\ remote[s].sent < 3)
    THEN { TRUE }
    ELSE IF remote[s].kind = "dead" THEN { FALSE } ELSE BOOLEAN

\* ------------------------------------------------------------------------
\* DownloadFromPeer: one session per peer of the snapshot
\* ------------------------------------------------------------------------

SetSession(s, npc, nchoked, nbits, nindex, noffset, ndata) ==
    /\ pc' = [pc EXCEPT ![s] = npc]
    /\ Choked' = [Choked EXCEPT ![s] = nchoked]
    /\ PeerBitfield' = [PeerBitfield EXCEPT ![s] = nbits]
    /\ pieceIndex' = [pieceIndex EXCEPT ![s] = nindex]
    /\ offset' = [offset EXCEPT ![s] = noffset]
    /\ data' = [data EXCEPT ![s] = ndata]

\* The session stays where it is, with these flags.
Stay(s, nchoked, nbits) ==
    SetSession(s, pc[s], nchoked, nbits, pieceIndex[s], offset[s], data[s])

\* return: the deferred Close and wg.Done, then the release of the sem slot.
\* The locals and the Peer are dead from here on and are reset.
Return(s) ==
    /\ SetSession(s, "done", TRUE, Nil, -1, 0, <<>>)
    /\ wg' = wg - 1
    /\ sem' = sem - 1

\* Torrent.Downloaded[index] = false
Release(index) == Downloaded' = [Downloaded EXCEPT ![index] = FALSE]

\* a release that does not wait for the mutex
UnlockedRelease(index) == Release(index)

\* lines 515-517, 527-529, 543-545, 558-560 and 579-581: a session's release.
\* Lock() goes through when nobody holds the mutex; the assignment and Unlock()
\* follow at once.
LockedRelease(index) ==
    /\ DownloadMutex = Free
    /\ Release(index)

\* the top of the download loop (line 437): wait while choked, else take a piece
LoopTop(choked) == IF choked THEN "choked" ELSE "assign"

\* lines 386-399: send Interested
SendInterested(s) ==
    /\ pc[s] = "interested"
    /\ \E ok \in SendOutcomes(s) :
          IF ok
          THEN /\ SetSession(s, "init", Choked[s], PeerBitfield[s], -1, 0, <<>>)
               /\ UNCHANGED <<wg, sem>>
          ELSE Return(s)
    /\ UNCHANGED <<connVars, Info, Downloaded, remote, pieceChan, closed, mainVars>>

\* an initial wait that ends with the Bitfield, unchoked or not
InitialWaitForBitfield(s, f) ==
    /\ pc[s] = "init"
    /\ LET m == ReceiveMessage(f)
           bits == IF m.ID = Bitfield THEN m.bits ELSE PeerBitfield[s]
       IN /\ remote' = [remote EXCEPT ![s] = Sent(remote[s], f)]
          /\ IF m.err THEN Return(s)
             ELSE /\ UNCHANGED <<wg, sem>>
                  /\ IF bits # Nil
                     THEN SetSession(s, "assign", Choked[s], bits, -1, 0, <<>>)
                     ELSE Stay(s, Choked[s], bits)
    /\ UNCHANGED <<connVars, Info, Downloaded, pieceChan, closed, mainVars>>

\* lines 401-431: wait for a Bitfield and an Unchoke; f is what arrives
InitialWaitOn(s, f) ==
    /\ pc[s] = "init"
    /\ LET m == ReceiveMessage(f)
           bits == IF m.ID = Bitfield THEN m.bits ELSE PeerBitfield[s]
           choked == IF m.ID = Unchoke THEN FALSE
                     ELSE IF m.ID = Choke THEN TRUE
                     ELSE Choked[s]
       IN /\ remote' = [remote EXCEPT ![s] = Sent(remote[s], f)]
          /\ IF m.err THEN Return(s)
             ELSE /\ UNCHANGED <<wg, sem>>
                  /\ IF m.nil THEN UNCHANGED sessVars
                     ELSE IF ~choked /\ bits # Nil
                     THEN SetSession(s, "assign", choked, bits, -1, 0, <<>>)
                     ELSE Stay(s, choked, bits)
    /\ UNCHANGED <<connVars, Info, Downloaded, pieceChan, closed, mainVars>>

InitialWait(s) == \E f \in Frames(s) : InitialWaitOn(s, f)

\* lines 438-466: choked, wait for an Unchoke; f is what arrives
ChokedWaitOn(s, f) ==
    /\ pc[s] = "choked"
    /\ LET m == ReceiveMessage(f)
           choked == IF m.ID = Unchoke THEN FALSE
                     ELSE IF m.ID = Choke THEN TRUE
                     ELSE Choked[s]
       IN /\ remote' = [remote EXCEPT ![s] = Sent(remote[s], f)]
          /\ IF m.err THEN Return(s)
             ELSE /\ UNCHANGED <<wg, sem>>
                  /\ IF m.nil THEN UNCHANGED sessVars
                     ELSE IF ~choked
                     THEN SetSession(s, "assign", choked, PeerBitfield[s], -1, 0,
                                     <<>>)
                     ELSE Stay(s, choked, PeerBitfield[s])
    /\ UNCHANGED <<connVars, Info, Downloaded, pieceChan, closed, mainVars>>

ChokedWait(s) == \E f \in Frames(s) : ChokedWaitOn(s, f)

\* lines 469-478: the index the assignment step selects, -1 when there is none
SelectPiece(downloaded, bitfield) ==
    LET cand == { i \in DOMAIN downloaded : ~downloaded[i] /\ HasPiece(bitfield, i) }
    IN IF cand = {} THEN -1
       ELSE CHOOSE i \in cand : \A j \in cand : i <= j

\* lines 468-511: the assignment step, one critical section of DownloadMutex,
\* then the Request for the first block
Assign(s) ==
    /\ pc[s] = "assign"
    /\ LET index == SelectPiece(Downloaded, PeerBitfield[s])
       IN IF index = -1
          THEN /\ Return(s)
               /\ UNCHANGED Downloaded
          ELSE /\ Downloaded' = [Downloaded EXCEPT ![index] = TRUE]
               /\ \E ok \in SendOutcomes(s) :
                     SetSession(s, IF ok THEN "recv" ELSE "sendfail", Choked[s],
                                PeerBitfield[s], index, 0, <<>>)
               /\ UNCHANGED <<wg, sem>>
    /\ UNCHANGED <<connVars, Info, remote, pieceChan, closed, mainVars>>

\* lines 512-520: the Request for the first block could not be sent
RequestFailed(s) ==
    /\ pc[s] = "sendfail"
    /\ LockedRelease(pieceIndex[s])
    /\ Return(s)
    /\ UNCHANGED <<connVars, Info, remote, pieceChan, closed, mainVars>>

\* ------------------------------------------------------------------------
\* The assignment step, statement by statement
\* ------------------------------------------------------------------------

\* what the statements of a critical section leave alone
lockVars == <<connVars, Info, remote, closed, spawned, completed, writeLog, faulty, out, ret>>

\* line 468: Torrent.DownloadMutex.Lock() goes through
AssignLock(s) ==
    /\ pc[s] = "assign"
    /\ \A q \in scan : q[1] # s
    /\ DownloadMutex = Free
    /\ mu' = [mu EXCEPT !.DownloadMutex = s, !.scan = @ \cup { <<s, 0>> }]
    /\ UNCHANGED <<lockVars, Downloaded, sessVars, pieceChan, wg, sem, mainpc>>

\* lines 471-511: one turn of the range loop over Torrent.Downloaded. The turn
\* that finds a piece marks it and breaks; Unlock() and the Request for the
\* first block follow. After the last turn come Unlock() and the return.
AssignScan(s) ==
    \E q \in scan :
       /\ q[1] = s
       /\ LET i == q[2]
              unlocked == [mu EXCEPT !.DownloadMutex = Free, !.scan = @ \ { q }]
          IN IF i = NumPieces
             THEN /\ mu' = unlocked
                  /\ Return(s)
                  /\ UNCHANGED Downloaded
             ELSE IF ~Downloaded[i] /\ HasPiece(PeerBitfield[s], i)
             THEN /\ Downloaded' = [Downloaded EXCEPT ![i] = TRUE]
                  /\ mu' = unlocked
                  /\ \E ok \in SendOutcomes(s) :
                        SetSession(s, IF ok THEN "recv" ELSE "sendfail", Choked[s],
                                   PeerBitfield[s], i, 0, <<>>)
                  /\ UNCHANGED <<wg, sem>>
             ELSE /\ mu' = [mu EXCEPT !.scan = (@ \ { q }) \cup { <<s, i + 1>> }]
                  /\ UNCHANGED <<Downloaded, sessVars, wg, sem>>
       /\ UNCHANGED <<lockVars, pieceChan, mainpc>>

\* ------------------------------------------------------------------------
\* SendMessage, write by write
\* ------------------------------------------------------------------------

\* A connection of which the outcome of each Write call is known: net[n] is
\* whether the n-th call succeeds, and the calls after the last one of net
\* succeed. written is the log of the calls made, the id of the message of
\* each; slept counts the 2-second sleeps of the session.
WireRemote(script) ==
    [kind |-> "wire", has |-> SeedBitfield, sent |-> 0, ka |-> 0, net |-> script,
     written |-> <<>>, slept |-> 0]

\* line 278: the result of the next peer.Connection.Write
WriteOk(r) ==
    LET n == Len(r.written) + 1
    IN n > Len(r.net) \/ r.net[n]

\* lines 276-288: the attempts of SendMessage from attempt on
RECURSIVE SendAttempts(_, _, _)
SendAttempts(r, id, attempt) ==
    IF attempt > 3 THEN [err |-> TRUE, remote |-> r]
    ELSE LET w == [r EXCEPT !.written = Append(@, id)]
         IN IF WriteOk(r) THEN [err |-> FALSE, remote |-> w]
            ELSE SendAttempts([w EXCEPT !.slept = @ + 1], id, attempt + 1)

\* SendMessage (lines 264-291) of a message with this id: its error, and the
\* connection after it
SendMessage(r, id) == SendAttempts(r, id, 1)

\* lines 386-399: the attempts to send Interested from attempt on
RECURSIVE InterestedAttempts(_, _)
InterestedAttempts(r, attempt) ==
    LET res == SendMessage(r, Interested)
    IN IF ~res.err \/ attempt = 3 THEN res
       ELSE InterestedAttempts([res.remote EXCEPT !.slept = @ + 1], attempt + 1)

\* lines 386-399 on such a connection: send Interested, or return
SendInterestedWire(s) ==
    /\ pc[s] = "interested"
    /\ remote[s].kind = "wire"
    /\ LET res == InterestedAttempts(remote[s], 1)
       IN /\ remote' = [remote EXCEPT ![s] = res.remote]
          /\ IF ~res.err
             THEN /\ SetSession(s, "init", Choked[s], PeerBitfield[s], -1, 0, <<>>)
                  /\ UNCHANGED <<wg, sem>>
             ELSE Return(s)
    /\ UNCHANGED <<connVars, Info, Downloaded, pieceChan, closed, mainVars>>

\* lines 468-520 on such a connection: the assignment step, then the Request
\* for the first block
AssignWire(s) ==
    /\ pc[s] = "assign"
    /\ remote[s].kind = "wire"
    /\ LET index == SelectPiece(Downloaded, PeerBitfield[s])
           res == SendMessage(remote[s], Request)
       IN IF index = -1
          THEN /\ Return(s)
               /\ UNCHANGED <<Downloaded, remote>>
          ELSE /\ Downloaded' = [Downloaded EXCEPT ![index] = TRUE]
               /\ remote' = [remote EXCEPT ![s] = res.remote]
               /\ SetSession(s, IF res.err THEN "sendfail" ELSE "recv", Choked[s],
                             PeerBitfield[s], index, 0, <<>>)
               /\ UNCHANGED <<wg, sem>>
    /\ UNCHANGED <<connVars, Info, pieceChan, closed, mainVars>>

\* a hash check that passes whatever the buffer holds
AlwaysMatches(d, index) == TRUE

\* line 576: bytes.Equal(hash[:], Torrent.PieceHashes[pieceIndex][:])
HashMatches(d, index) == sha1Sum(d) = PieceHashes[index]

\* line 583: where the session goes on after a hash mismatch
AfterMismatch(choked) == LoopTop(choked)

\* lines 574-592, with the buffer complete: the hash check, then the release,
\* or the send on pieceChan, which blocks while the channel is full
VerifyPiece(s, ndata) ==
    IF ~HashMatches(ndata, pieceIndex[s])
    THEN /\ LockedRelease(pieceIndex[s])
         /\ SetSession(s, AfterMismatch(Choked[s]), Choked[s], PeerBitfield[s], -1, 0,
                       <<>>)
         /\ UNCHANGED <<pieceChan, wg, sem>>
    ELSE /\ Len(pieceChan) < NumPieces
         /\ pieceChan' = Append(pieceChan, [Index |-> pieceIndex[s], Data |-> ndata])
         /\ SetSession(s, LoopTop(Choked[s]), Choked[s], PeerBitfield[s], -1, 0, <<>>)
         /\ UNCHANGED <<Downloaded, wg, sem>>

\* lines 499-520, after a block: the Request for the next block
NextRequest(s, noffset, ndata) ==
    \E ok \in SendOutcomes(s) :
       IF ok
       THEN /\ SetSession(s, "recv", Choked[s], PeerBitfield[s], pieceIndex[s],
                          noffset, ndata)
            /\ UNCHANGED <<Downloaded, pieceChan, wg, sem>>
       ELSE /\ LockedRelease(pieceIndex[s])
            /\ Return(s)
            /\ UNCHANGED pieceChan

\* lines 522-592: wait for the block asked for; with it, go round the block loop
\* (line 499): the next Request, or the hash check when the piece is complete
ReceiveBlockOn(s, f) ==
    /\ pc[s] = "recv"
    /\ LET m == ReceiveMessage(f)
       IN /\ remote' = [remote EXCEPT ![s] = Sent(remote[s], f)]
          /\ IF m.err
             THEN /\ LockedRelease(pieceIndex[s])
                  /\ Return(s)
                  /\ UNCHANGED pieceChan
             ELSE IF m.nil
             THEN /\ UNCHANGED <<sessVars, Downloaded, pieceChan, wg, sem>>
             ELSE IF m.ID = Piece
             THEN IF m.plen < 8
                  THEN /\ LockedRelease(pieceIndex[s])
                       /\ Return(s)
                       /\ UNCHANGED pieceChan
                  ELSE LET ndata == Append2(data[s], m.block)
                           noffset == offset[s] + blockSize
                       IN IF noffset < pieceLengthOf(pieceIndex[s])
                          THEN NextRequest(s, noffset, ndata)
                          ELSE VerifyPiece(s, ndata)
             ELSE IF m.ID = Choke
             THEN /\ LockedRelease(pieceIndex[s])
                  /\ Stay(s, TRUE, PeerBitfield[s])
                  /\ UNCHANGED <<pieceChan, wg, sem>>
             ELSE /\ UNCHANGED <<sessVars, Downloaded, pieceChan, wg, sem>>
    /\ UNCHANGED <<connVars, Info, closed, mainVars>>

ReceiveBlock(s) == \E f \in Frames(s) : ReceiveBlockOn(s, f)

\* the same loop, when what arrives is a Piece message for another block
ReceiveStray(s) == \E f \in StrayPieces(s) : ReceiveBlockOn(s, f)

\* The receive loops, when what arrives is the Have of a peer that has sent
\* its Bitfield and has got piece i since.
ReceiveHave(s) ==
    \E i \in Pieces :
       /\ remote[s].kind = "late" /\ remote[s].sent >= 1
       /\ ~BitSet(remote[s].has, i)
       /\ \/ InitialWaitOn(s, HaveMessage(i))
          \/ ChokedWaitOn(s, HaveMessage(i))
          \/ ReceiveBlockOn(s, HaveMessage(i))

Session(s) ==
    \/ SendInterested(s)
    \/ InitialWait(s)
    \/ ChokedWait(s)
    \/ Assign(s)
    \/ RequestFailed(s)
    \/ ReceiveBlock(s)

\* ------------------------------------------------------------------------
\* StartDownload
\* ------------------------------------------------------------------------

\* lines 649-666: the file creation loop from file i on, o the files so far.
\* MkdirAll or OpenFile fails: return; Truncate fails: f.Close(), return;
\* else file.Handle = f.
RECURSIVE CreateFrom(_, _)
CreateFrom(o, i) ==
    IF i > Len(o.handles) THEN [out |-> o, err |-> FALSE]
    ELSE IF o.fail = <<i, "MkdirAll">> \/ o.fail = <<i, "OpenFile">>
    THEN [out |-> o, err |-> TRUE]
    ELSE IF o.fail = <<i, "Truncate">>
    THEN [out |-> [o EXCEPT !.handles[i] = "closed"], err |-> TRUE]
    ELSE CreateFrom([o EXCEPT !.handles[i] = "open", !.sized = @ \cup { i }], i + 1)

\* lines 649-675: create and size the output files, then register the deferred
\* close; an error returns before that
CreateFiles ==
    /\ mainpc = "files"
    /\ LET res == CreateFrom(out, 1)
       IN /\ out' = res.out
          /\ IF res.err
             THEN mainpc' = "failed" /\ ret' = "error"
             ELSE /\ mainpc' = IF NumPeers = 0 THEN "consume" ELSE "spawn"
                  /\ UNCHANGED ret
    /\ UNCHANGED <<connVars, Info, Downloaded, remote, sessVars, pieceChan, closed, wg, sem,
                   spawned, completed, writeLog, faulty, mu>>

\* a slot of a semaphore that is taken whatever its load
AcquireAlways(n) == TRUE

\* sem <- struct{}{} goes through when fewer than ten slots are in use
Acquire(n) == n < SemCapacity

\* lines 686-704: the spawn loop; wg.Add, a sem slot, go DownloadFromPeer
Spawn ==
    /\ mainpc = "spawn"
    /\ spawned < NumPeers
    /\ Acquire(sem)
    /\ wg' = wg + 1
    /\ sem' = sem + 1
    /\ spawned' = spawned + 1
    /\ pc' = [pc EXCEPT ![spawned + 1] = "interested"]
    /\ mainpc' = IF spawned + 1 = NumPeers THEN "consume" ELSE "spawn"
    /\ UNCHANGED <<connVars, Info, Downloaded, remote, Choked, PeerBitfield, pieceIndex, offset,
                   data, pieceChan, closed, completed, writeLog, faulty, out, mu, ret>>

\* a closer that does not wait for the sessions
CloseEarly ==
    /\ mainpc \in { "consume", "lock", "write", "returned" }
    /\ ~closed
    /\ closed' = TRUE
    /\ UNCHANGED <<connVars, Info, Downloaded, remote, sessVars, pieceChan, wg, sem, mainVars>>

\* lines 706-710: wg.Wait(), close(pieceChan)
CloseChan ==
    /\ mainpc \in { "consume", "lock", "write", "returned" }
    /\ ~closed
    /\ wg = 0
    /\ closed' = TRUE
    /\ UNCHANGED <<connVars, Info, Downloaded, remote, sessVars, pieceChan, wg, sem, mainVars>>

\* WriteAt calls that carry the whole piece to every file it intersects
RECURSIVE WriteCallsWhole(_, _, _)
WriteCallsWhole(piece, k, failing) ==
    IF k > Len(Files) THEN <<>>
    ELSE LET file == Files[k]
             pieceStart == piece.Index * PieceLength
             start == Max(pieceStart, file.Offset)
             end == Min(pieceStart + DataLen(piece.Data), file.Offset + file.Length)
         IN IF start >= end THEN WriteCallsWhole(piece, k + 1, failing)
            ELSE <<[Index |-> piece.Index, file |-> k, off |-> start - file.Offset,
                    chunk |-> piece.Data, ok |-> k \notin failing]>>
                 \o WriteCallsWhole(piece, k + 1, failing)

\* a skip test that never skips
NeverWritten(index) == FALSE

\* lines 738-759: the WriteAt calls for one piece, file by file from file k on.
\* failing is the set of files on which WriteAt returns an error.
RECURSIVE WriteCalls(_, _, _)
WriteCalls(piece, k, failing) ==
    IF k > Len(Files) THEN <<>>
    ELSE LET file == Files[k]
             pieceStart == piece.Index * PieceLength
             pieceEnd == pieceStart + DataLen(piece.Data)
             fileStart == file.Offset
             fileEnd == file.Offset + file.Length
             start == Max(pieceStart, fileStart)
             end == Min(pieceEnd, fileEnd)
             startInPiece == start - pieceStart
             endInPiece == end - pieceStart
         IN IF start >= end THEN WriteCalls(piece, k + 1, failing)
            ELSE <<[Index |-> piece.Index, file |-> k, off |-> start - file.Offset,
                    chunk |-> Slice(piece.Data, startInPiece, endInPiece),
                    ok |-> k \notin failing]>>
                 \o WriteCalls(piece, k + 1, failing)

\* line 728: the test that skips a piece
AlreadyWritten(index) == index \in completed

\* lines 727-763: the body of the writer loop, between Lock() and Unlock()
WriteOne(piece) ==
    IF AlreadyWritten(piece.Index)
    THEN UNCHANGED <<Downloaded, completed, writeLog>>
    ELSE LET calls == WriteCalls(piece, 1, faulty)
             failed == \E j \in 1..Len(calls) : ~calls[j].ok
         IN /\ writeLog' = writeLog \o calls
            /\ completed' = completed \cup { piece.Index }
            /\ IF failed THEN Release(piece.Index)
               ELSE UNCHANGED Downloaded

\* lines 725-764: one iteration of the writer loop
WritePiece ==
    /\ mainpc = "consume"
    /\ pieceChan # <<>>
    /\ DownloadMutex = Free
    /\ pieceChan' = Tail(pieceChan)
    /\ WriteOne(Head(pieceChan))
    /\ UNCHANGED <<connVars, Info, remote, sessVars, closed, wg, sem, spawned, faulty, out,
                   mu, mainpc, ret>>

\* no piece
NoPiece == [Index |-> 0 - 1, Data |-> <<>>]

\* line 725: the range loop receives a piece from pieceChan
WriterReceive ==
    /\ mainpc = "consume"
    /\ pieceChan # <<>>
    /\ pieceChan' = Tail(pieceChan)
    /\ mu' = [mu EXCEPT !.piece = Head(pieceChan)]
    /\ mainpc' = "lock"
    /\ UNCHANGED <<lockVars, Downloaded, sessVars, wg, sem>>

\* line 726: Torrent.DownloadMutex.Lock() goes through
WriterLock ==
    /\ mainpc = "lock"
    /\ DownloadMutex = Free
    /\ mu' = [mu EXCEPT !.DownloadMutex = Main]
    /\ mainpc' = "write"
    /\ UNCHANGED <<lockVars, Downloaded, sessVars, pieceChan, wg, sem>>

\* lines 727-764: the body, then Unlock()
WriterWrite ==
    /\ mainpc = "write"
    /\ WriteOne(mu.piece)
    /\ mu' = [mu EXCEPT !.DownloadMutex = Free, !.piece = NoPiece]
    /\ mainpc' = "consume"
    /\ UNCHANGED <<connVars, Info, remote, sessVars, pieceChan, closed, wg, sem, spawned,
                   faulty, out, ret>>

\* lines 681-682: PeersMutex.Lock() goes through, and make([]Peer, len)
SnapshotLock ==
    /\ mainpc = "snapshot"
    /\ PeersMutex = Free
    /\ mu' = [mu EXCEPT !.PeersMutex = Main, !.peers = Len(TorrentPeers)]
    /\ mainpc' = "copy"
    /\ UNCHANGED <<lockVars, Downloaded, sessVars, pieceChan, wg, sem>>

\* lines 683-685: copy(peers, Torrent.Peers) and Unlock(); a session's Peer is
\* an element of the copy
SnapshotCopy ==
    /\ mainpc = "copy"
    /\ mu' = [mu EXCEPT !.PeersMutex = Free, !.peers = 0]
    /\ pc' = [s \in 1..mu.peers |-> "idle"]
    /\ Choked' = [s \in 1..mu.peers |-> TRUE]
    /\ PeerBitfield' = [s \in 1..mu.peers |-> Nil]
    /\ pieceIndex' = [s \in 1..mu.peers |-> 0 - 1]
    /\ offset' = [s \in 1..mu.peers |-> 0]
    /\ data' = [s \in 1..mu.peers |-> <<>>]
    /\ mainpc' = IF mu.peers = 0 THEN "consume" ELSE "spawn"
    /\ UNCHANGED <<lockVars, Downloaded, pieceChan, wg, sem>>

\* lines 798-802: the result, from the number of keys of completed
Result == IF Cardinality(completed) # NumPieces THEN "error" ELSE "nil"

\* lines 668-674, the deferred function: every handle that is not nil is
\* closed
DeferredClose(h) == [k \in DOMAIN h |-> IF h[k] = "nil" THEN "nil" ELSE "closed"]

\* the range loop ends when pieceChan is closed and drained; the return runs
\* the deferred function
Finish ==
    /\ mainpc = "consume"
    /\ pieceChan = <<>>
    /\ closed
    /\ mainpc' = "returned"
    /\ ret' = Result
    /\ out' = [out EXCEPT !.handles = DeferredClose(@)]
    /\ UNCHANGED <<connVars, Info, Downloaded, remote, sessVars, pieceChan, closed, wg, sem,
                   spawned, completed, writeLog, faulty, mu>>

\* ------------------------------------------------------------------------
\* PerformHandshake, ConnectToPeers and RefreshPeer
\* ------------------------------------------------------------------------

\* the protocol literal of the handshake
protocol == "BitTorrent protocol"

\* Torrent.Info.InfoHash
InfoHash == "local info-hash"

\* what GetExternalIP returns when the lookup succeeds
ExternalIP == "198.51.100.7"

\* a Peer as ParsePeers builds it from six bytes of a compact peer list
Addr(ip, port) == [IP |-> ip, Port |-> port]

Seeder(k) == Addr("192.0.2.1", 6880 + k)

\* utils.go 75-94: the fixed prefix and twelve characters drawn at random
GeneratePeerID(random) == "-GT0001-" \o random

\* two outcomes of the twelve random characters
FirstDraw == "0123456789ab"

RandomChars == { FirstDraw, "zyxvutsrqpon" }

PeerIDs == { GeneratePeerID(r) : r \in RandomChars }

\* the fields of a received Handshake that PerformHandshake reads
GoodHello == [ProtocolNameLength |-> 19, Protocol |-> protocol, InfoHash |-> InfoHash]

Hellos ==
    [ProtocolNameLength : { 19, 18 },
     Protocol : { protocol, "BitTorrent protocoX" },
     InfoHash : { InfoHash, "other info-hash" }]

\* What one call of PerformHandshake meets: the external-IP lookup fails, the
\* dial fails, a write or the read on the connection fails, or a reply arrives;
\* and the characters GeneratePeerID draws in that call.
Attempt(extErr, dialErr, ioErr, hello, random) ==
    [extErr |-> extErr, dialErr |-> dialErr, ioErr |-> ioErr, hello |-> hello,
     random |-> random]

DownAttempts == { Attempt(FALSE, TRUE, FALSE, GoodHello, FirstDraw) }

\* every way a call can go, the random source drawing the same characters
AllAttempts ==
    { Attempt(TRUE, FALSE, FALSE, GoodHello, FirstDraw),
      Attempt(FALSE, FALSE, TRUE, GoodHello, FirstDraw) }
    \cup DownAttempts
    \cup { Attempt(FALSE, FALSE, FALSE, h, FirstDraw) : h \in Hellos }

\* the dial fails, or the handshake succeeds, with either draw of the random
\* source
DrawAttempts ==
    DownAttempts \cup { Attempt(FALSE, FALSE, FALSE, GoodHello, r) : r \in RandomChars }

\* a hello that passes whatever info-hash it carries
AnyInfoHash(h) == h.ProtocolNameLength = 19 /\ h.Protocol = protocol

\* lines 105-113: the three checks on the reply
ValidHello(h) ==
    /\ ~(h.ProtocolNameLength # 19 \/ h.Protocol # protocol)
    /\ h.InfoHash = InfoHash

\* a self check that never finds the client's own address
NeverSelf(peer, myIP) == FALSE

\* lines 60-62: peer.IP == myIP
IsSelf(peer, myIP) == peer.IP = myIP

\* lines 64-89: the connection net.DialTimeout returns, with the peer-id of the
\* Handshake written on it and what will be read on it
Dial(peer, a) ==
    [to |-> peer, call |-> cycle, hello |-> a.hello, peerID |-> GeneratePeerID(a.random)]

\* lines 118-125: the Peer that PerformHandshake appends
Entry(peer, conn) == [IP |-> peer.IP, Port |-> peer.Port, Connection |-> conn]

\* lines 117-126: PeersMutex.Lock() goes through when nobody holds the mutex;
\* the append and Unlock() follow at once
LockedAppend(e) ==
    /\ PeersMutex = Free
    /\ TorrentPeers' = Append(TorrentPeers, e)

\* FindConnections and the call of ConnectToPeers in main, or one turn of the
\* loop of RefreshPeer (lines 819-836): the tracker answers with a peer list
StartCycle ==
    /\ cpc = "call"
    /\ cycle <= MaxCycles
    /\ \E peers \in tracker :
          /\ hsPeers' = peers
          /\ cpc' = IF peers = <<>> THEN "wait" ELSE "loop"
    /\ hsNext' = 0
    /\ cycle' = cycle + 1
    /\ UNCHANGED <<TorrentPeers, dialed, hsOpen, tracker, net, hsRun, hsSem, hsWg>>
    /\ UNCHANGED <<Info, Downloaded, remote, sessVars, pieceChan, closed, wg, sem,
                   mainVars, trk, meta>>

\* lines 148-167: wg.Add, a sem slot, go PerformHandshake
HsSpawn ==
    /\ cpc = "loop"
    /\ hsNext < Len(hsPeers)
    /\ Acquire(hsSem)
    /\ hsWg' = hsWg + 1
    /\ hsSem' = hsSem + 1
    /\ hsNext' = hsNext + 1
    /\ hsRun' = hsRun \cup { hsNext + 1 }
    /\ cpc' = IF hsNext + 1 = Len(hsPeers) THEN "wait" ELSE "loop"
    /\ UNCHANGED <<TorrentPeers, dialed, hsOpen, tracker, net, hsPeers, cycle>>
    /\ UNCHANGED <<Info, Downloaded, remote, sessVars, pieceChan, closed, wg, sem,
                   mainVars, trk, meta>>

\* lines 53-129, and the deferred release of lines 153-156: the handshake with
\* candidate k, when the attempt meets a
PerformHandshakeOn(k, a) ==
    /\ k \in hsRun
    /\ LET peer == hsPeers[k]
           conn == Dial(peer, a)
       IN  IF a.extErr \/ IsSelf(peer, ExternalIP)
           THEN UNCHANGED <<TorrentPeers, dialed, hsOpen>>
           ELSE /\ dialed' = dialed \cup { peer }
                /\ IF a.dialErr
                   THEN UNCHANGED <<TorrentPeers, hsOpen>>
                   ELSE IF a.ioErr \/ ~ValidHello(a.hello)
                   THEN /\ hsOpen' = (hsOpen \cup { conn }) \ { conn }
                        /\ UNCHANGED TorrentPeers
                   ELSE /\ hsOpen' = hsOpen \cup { conn }
                        /\ LockedAppend(Entry(peer, conn))
    /\ hsRun' = hsRun \ { k }
    /\ hsSem' = hsSem - 1
    /\ hsWg' = hsWg - 1
    /\ UNCHANGED <<tracker, net, hsPeers, hsNext, cpc, cycle>>
    /\ UNCHANGED <<Info, Downloaded, remote, sessVars, pieceChan, closed, wg, sem,
                   mainVars, trk, meta>>

PerformHandshake(k) == \E a \in net : PerformHandshakeOn(k, a)

\* line 169: wg.Wait() returns, and with it ConnectToPeers
EndCycle ==
    /\ cpc = "wait"
    /\ hsWg = 0
    /\ cpc' = "call"
    /\ hsPeers' = <<>>
    /\ hsNext' = 0
    /\ UNCHANGED <<TorrentPeers, dialed, hsOpen, tracker, net, hsRun, hsSem, hsWg,
                   cycle>>
    /\ UNCHANGED <<Info, Downloaded, remote, sessVars, pieceChan, closed, wg, sem,
                   mainVars, trk, meta>>

Connect ==
    \/ StartCycle
    \/ HsSpawn
    \/ \E k \in 1..Len(hsPeers) : PerformHandshake(k)
    \/ EndCycle

\* ------------------------------------------------------------------------
\* Parse, computeInfoHash and extractInfoBytes
\* ------------------------------------------------------------------------

\* A Go string is the sequence of its characters; a []byte, and the string made
\* of one, is the sequence of its bytes.
Digits == <<"0", "1", "2", "3", "4", "5", "6", "7", "8", "9">>

\* fmt.Sprintf("%d", n) of an n that is not negative
RECURSIVE Itoa(_)
Itoa(n) ==
    IF n < 10 THEN <<Digits[n + 1]>>
    ELSE Itoa(n \div 10) \o <<Digits[(n % 10) + 1]>>

IsNumber(str) ==
    /\ str # <<>>
    /\ \A i \in 1..Len(str) : \E d \in 1..10 : Digits[d] = str[i]

RECURSIVE Value(_)
Value(str) ==
    IF str = <<>> THEN 0
    ELSE Value(SubSeq(str, 1, Len(str) - 1)) * 10
         + (CHOOSE d \in 0..9 : Digits[d + 1] = str[Len(str)])

\* the bytes of the .torrent file
file == meta.file

\* whether bencode.Unmarshal accepts the file
decodable == meta.decodable

\* Torrent.Info.InfoHash as Parse leaves it
ParsedInfoHash == meta.InfoHash

\* what Parse returned, once it has: whether its error is non-nil
parseErr == meta.err

\* bytes.Index(data, pat), counted from 0
IndexOf(buf, pat) ==
    LET hits == { i \in 0..(Len(buf) - Len(pat)) : SubSeq(buf, i + 1, i + Len(pat)) = pat }
    IN  IF hits = {} THEN 0 - 1 ELSE CHOOSE i \in hits : \A j \in hits : i <= j

IsDigit(b) == \E d \in 1..10 : Digits[d] = b

\* lines 51-52: the first j >= from with data[j] = 'e', or len(data)
RECURSIVE SkipToE(_, _)
SkipToE(buf, from) ==
    IF from < Len(buf) /\ buf[from + 1] # "e" THEN SkipToE(buf, from + 1) ELSE from

\* lines 64-65: the first j >= from with data[j] no digit, or len(data)
RECURSIVE SkipDigits(_, _)
SkipDigits(buf, from) ==
    IF from < Len(buf) /\ IsDigit(buf[from + 1]) THEN SkipDigits(buf, from + 1) ELSE from

\* what extractInfoBytes returns with a non-nil error
ExtractError == [err |-> TRUE, bytes |-> <<>>]

\* lines 36-80: the loop, from its test with these values of i and depth
RECURSIVE Scan(_, _, _, _)
Scan(buf, start, i, depth) ==
    IF i >= Len(buf) THEN ExtractError
    ELSE LET b == buf[i + 1]
         IN  IF b \in { "d", "l" } THEN Scan(buf, start, i + 1, depth + 1)
             ELSE IF b = "e"
             THEN IF depth - 1 = 0
                  THEN [err |-> FALSE, bytes |-> SubSeq(buf, start + 1, i + 1)]
                  ELSE Scan(buf, start, i + 1, depth - 1)
             ELSE IF b = "i"
             THEN LET j == SkipToE(buf, i + 1)
                  IN  IF j >= Len(buf) THEN ExtractError
                      ELSE Scan(buf, start, j + 1, depth)
             ELSE IF IsDigit(b)
             THEN LET j == SkipDigits(buf, i)
                  IN  IF j < Len(buf) /\ buf[j + 1] = ":"
                      THEN Scan(buf, start, (j + 1) + Value(SubSeq(buf, i + 1, j)), depth)
                      ELSE Scan(buf, start, i + 1, depth)
             ELSE Scan(buf, start, i + 1, depth)

\* the key of the info dictionary, as it is encoded
InfoKey == <<"4", ":", "i", "n", "f", "o">>

\* parse.go 27-81
extractInfoBytes(buf) ==
    LET idx == IndexOf(buf, InfoKey)
    IN  IF idx < 0 THEN ExtractError
        ELSE Scan(buf, idx + Len(InfoKey), idx + Len(InfoKey), 0)

\* sha1.Sum of a sequence of bytes, which identifies them
Sum(bytes) == <<"sha1">> \o bytes

\* [20]byte{}
ZeroHash == <<"zero">>

\* parse.go 96-108, the file being readable: the hash and the error
computeInfoHash(buf) ==
    LET info == extractInfoBytes(buf)
    IN  IF info.err THEN [hash |-> ZeroHash, err |-> TRUE]
        ELSE [hash |-> Sum(info.bytes), err |-> FALSE]

\* parse.go 123-143, and lines 23-26 of main: SetTorrentFile, and log.Fatalf
\* when it returns an error
Parse ==
    /\ mainpc = "start"
    /\ IF ~decodable
       THEN /\ meta' = [meta EXCEPT !.err = <<TRUE>>]
            /\ mainpc' = "fatal"
       ELSE /\ meta' = [meta EXCEPT !.InfoHash = computeInfoHash(file).hash, !.err = <<FALSE>>]
            /\ mainpc' = "main"
    /\ UNCHANGED <<hsVars, trk, Info, Downloaded, remote, sessVars, pieceChan, closed, wg,
                   sem, spawned, completed, writeLog, faulty, out, mu, ret>>

\* a .torrent file before Parse
TorrentOnDisk(f) == [file |-> f.bytes, decodable |-> f.decodable, InfoHash |-> ZeroHash, err |-> <<>>]

\* the .torrent file has been parsed, and the model does not look at its bytes
Parsed == [file |-> <<>>, decodable |-> TRUE, InfoHash |-> <<InfoHash>>, err |-> <<FALSE>>]

\* ------------------------------------------------------------------------
\* SendTrackerResponse and ParsePeers
\* ------------------------------------------------------------------------

\* what strconv.ParseUint returns with a non-nil error
ParseFailure == 0 - 1

\* strconv.ParseUint(str, 10, 16)
ParseUint16(str) ==
    IF IsNumber(str) /\ Value(str) < 65536 THEN Value(str) ELSE ParseFailure

\* tracker.go 517-520: strconv.Atoi with the error ignored
atoi(str) == IF IsNumber(str) THEN Value(str) ELSE 0

\* the conversion byte(n)
byte(n) == n % 256

\* strings.Split(str, sep) with a separator of one character
RECURSIVE Split(_, _)
Split(str, sep) ==
    IF \A i \in 1..Len(str) : str[i] # sep THEN <<str>>
    ELSE LET at == CHOOSE i \in 1..Len(str) :
                       str[i] = sep /\ \A j \in 1..(i - 1) : str[j] # sep
         IN  <<SubSeq(str, 1, at - 1)>> \o Split(SubSeq(str, at + 1, Len(str)), sep)

\* utils.go 35: fmt.Sprintf("%d.%d.%d.%d", ...) of four bytes
DottedQuad(b) ==
    Itoa(b[1]) \o <<".">> \o Itoa(b[2]) \o <<".">> \o Itoa(b[3]) \o <<".">> \o Itoa(b[4])

\* binary.BigEndian.Uint16
Uint16(b) == b[1] * 256 + b[2]

\* utils.go 28-43: the peers and the error ParsePeers returns
ParsePeers(peers) ==
    IF Len(peers) % 6 # 0 THEN [peers |-> <<>>, err |-> TRUE]
    ELSE [peers |-> [i \in 1..(Len(peers) \div 6) |->
                        Addr(DottedQuad(SubSeq(peers, 6 * i - 5, 6 * i - 2)),
                             Uint16(SubSeq(peers, 6 * i - 1, 6 * i)))],
          err |-> FALSE]

\* tracker.go 428 and 455: the key of a peer in allPeers
PeerKey(peer) == peer.IP \o <<":">> \o Itoa(peer.Port)

\* tracker.go 494-495 with the low byte first
PortBytesLittleEndian(port) == <<byte(port % 256), byte(port \div 256)>>

\* tracker.go 494-495: byte(port>>8), byte(port&0xFF)
PortBytes(port) == <<byte(port \div 256), byte(port % 256)>>

\* tracker.go 474-496: the bytes one key of allPeers adds to peerBytes
CompactPeer(addr) ==
    LET parts == Split(addr, ":")
    IN  IF Len(parts) # 2 THEN <<>>
        ELSE LET ipParts == Split(parts[1], ".")
                 port == ParseUint16(parts[2])
             IN  IF Len(ipParts) # 4 \/ port = ParseFailure THEN <<>>
                 ELSE <<byte(atoi(ipParts[1])), byte(atoi(ipParts[2])),
                        byte(atoi(ipParts[3])), byte(atoi(ipParts[4]))>>
                      \o PortBytes(port)

RECURSIVE CompactPeers(_)
CompactPeers(order) ==
    IF order = <<>> THEN <<>>
    ELSE CompactPeer(Head(order)) \o CompactPeers(Tail(order))

\* the orders in which a range loop may go through a map with these keys
MapOrders(keys) ==
    { o \in [1..Cardinality(keys) -> keys] : \A k \in keys : \E i \in DOMAIN o : o[i] = k }

\* what SendUDPTrackerRequest or SendHTTPTrackerRequest returns: a
\* TrackerResponse, or an error
TrackerResponse(peers, interval) == [err |-> FALSE, Peers |-> peers, Interval |-> interval]

RequestError == [err |-> TRUE, Peers |-> <<>>, Interval |-> 0]

\* tracker.go 415-439 and 441-465: one turn of either loop
ContactTracker ==
    /\ mainpc = "main"
    /\ response = <<>>
    /\ contacted < Len(trackers)
    /\ LET resp == trackers[contacted + 1]
           parsed == ParsePeers(resp.Peers)
           peers == parsed.peers
       IN  IF resp.err \/ parsed.err
           THEN trk' = [trk EXCEPT !.contacted = contacted + 1]
           ELSE trk' = [trk EXCEPT
                          !.contacted = contacted + 1,
                          !.allPeers = allPeers \cup { PeerKey(peers[i]) : i \in 1..Len(peers) },
                          !.finalInterval = IF finalInterval = 0 \/ resp.Interval < finalInterval
                                            THEN resp.Interval
                                            ELSE finalInterval]
    /\ UNCHANGED <<hsVars, meta, Info, Downloaded, remote, sessVars, pieceChan, closed, wg,
                   sem, mainVars>>

\* tracker.go 467-502
BuildResponse ==
    /\ mainpc = "main"
    /\ response = <<>>
    /\ contacted = Len(trackers)
    /\ IF allPeers = {}
       THEN trk' = [trk EXCEPT !.response = <<RequestError>>]
       ELSE \E order \in MapOrders(allPeers) :
               trk' = [trk EXCEPT
                         !.response = <<TrackerResponse(CompactPeers(order), finalInterval)>>]
    /\ UNCHANGED <<hsVars, meta, Info, Downloaded, remote, sessVars, pieceChan, closed, wg,
                   sem, mainVars>>

SendTrackerResponse == ContactTracker \/ BuildResponse

\* ------------------------------------------------------------------------
\* SendUDPTrackerRequest
\* ------------------------------------------------------------------------

\* the tracker's transaction id of the call, from GenerateTransactionID
transactionID == trk.transactionID

\* what the connect attempts and the announce of the call meet on the network
udpNet == trk.udpNet

\* SendUDPTrackerRequest's attempt
attempt == trk.attempt

\* SendUDPTrackerRequest's connectionID
connectionID == trk.connectionID

\* position of SendUDPTrackerRequest
upc == trk.upc

\* the conn.Write calls of SendUDPTrackerRequest, with the deadline in force
wire == trk.wire

\* what SendUDPTrackerRequest returned, once it has
udpRet == trk.udpRet

\* a uint64, as its high and low 32 bits
Uint64(hi, lo) == <<hi, lo>>

\* line 199: 0x41727101980, the connection id of a connect request
protocolID == Uint64(1047, 655366528)

\* What a Write and the Read after it meet: the Write fails, or the Read
\* fails (nothing arrives before the deadline), or a datagram of n bytes arrives.
WriteFails ==
    [wErr |-> TRUE, rErr |-> FALSE, n |-> 0, action |-> 0, tx |-> 0, connectionID |-> Uint64(0, 0),
     interval |-> 0, peers |-> <<>>]

NoResponse ==
    [wErr |-> FALSE, rErr |-> TRUE, n |-> 0, action |-> 0, tx |-> 0, connectionID |-> Uint64(0, 0),
     interval |-> 0, peers |-> <<>>]

\* a connect response: action, transaction id, connection id
ConnectDatagram(n, action, tx, id) ==
    [wErr |-> FALSE, rErr |-> FALSE, n |-> n, action |-> action, tx |-> tx,
     connectionID |-> id, interval |-> 0, peers |-> <<>>]

\* an announce response: action, transaction id, interval, leechers, seeders
\* and the peers
AnnounceDatagram(action, tx, interval, peers) ==
    [wErr |-> FALSE, rErr |-> FALSE, n |-> 20 + Len(peers), action |-> action, tx |-> tx,
     connectionID |-> Uint64(0, 0), interval |-> interval, peers |-> peers]

\* a datagram too short to be an announce response
ShortDatagram == ConnectDatagram(8, 0, 0, Uint64(0, 0))

\* line 211 with every deadline that of the first attempt
FirstDeadline(a) == 5

\* line 211: the deadline of an attempt, in seconds
Deadline(a) == 5 + a * 2

ConnectRequest(a, ok) ==
    [kind |-> "connect", deadline |-> Deadline(a), ok |-> ok,
     connectionID |-> protocolID, transactionID |-> transactionID, peerID |-> ""]

\* lines 271-290: the announce request, written under a deadline of 5 s
AnnounceRequest(id, ok) ==
    [kind |-> "announce", deadline |-> 5, ok |-> ok,
     connectionID |-> connectionID, transactionID |-> transactionID, peerID |-> id]

\* SendUDPTrackerRequest returns this
UDPReturn(r) == [trk EXCEPT !.upc = "done", !.udpRet = <<r>>]

\* lines 210-242: one turn of the loop, up to the checks of the connect response
ConnectAttempt ==
    /\ upc = "connect"
    /\ attempt < MaxAttempts
    /\ LET o == udpNet.connect[attempt + 1]
           sent == [trk EXCEPT !.wire = Append(wire, ConnectRequest(attempt, ~o.wErr))]
       IN  IF o.wErr \/ o.rErr \/ o.n < 16
           THEN trk' = [sent EXCEPT !.attempt = attempt + 1]
           ELSE IF o.action # 0 \/ o.tx # transactionID
           THEN trk' = [sent EXCEPT !.upc = "done", !.udpRet = <<RequestError>>]
           ELSE trk' = [sent EXCEPT !.upc = "announce", !.connectionID = o.connectionID]
    /\ UNCHANGED <<hsVars, meta, Info, Downloaded, remote, sessVars, pieceChan, closed, wg,
                   sem, mainVars>>

\* lines 244-344: the rest of the turn, the announce and its response
Announce ==
    /\ upc = "announce"
    /\ \E id \in PeerIDs :
          LET o == udpNet.announce
              sent == [trk EXCEPT !.wire = Append(wire, AnnounceRequest(id, ~o.wErr))]
              ok == /\ ~o.wErr
                    /\ ~o.rErr
                    /\ o.n >= 20
                    /\ o.action = 1
                    /\ o.tx = transactionID
                    /\ Len(o.peers) % 6 = 0
          IN  trk' = [sent EXCEPT
                        !.upc = "done",
                        !.udpRet = <<IF ok THEN TrackerResponse(o.peers, o.interval)
                                     ELSE RequestError>>]
    /\ UNCHANGED <<hsVars, meta, Info, Downloaded, remote, sessVars, pieceChan, closed, wg,
                   sem, mainVars>>

\* line 347: the loop is over
NoConnectResponse ==
    /\ upc = "connect"
    /\ attempt = MaxAttempts
    /\ trk' = UDPReturn(RequestError)
    /\ UNCHANGED <<hsVars, meta, Info, Downloaded, remote, sessVars, pieceChan, closed, wg,
                   sem, mainVars>>

SendUDPTrackerRequest == ConnectAttempt \/ Announce \/ NoConnectResponse

\* the connect attempts of a call that is not running
NoScript == [connect |-> <<>>, announce |-> NoResponse]

\* The tracker client with SendTrackerResponse before its loops and these
\* trackers to contact, and SendUDPTrackerRequest at this position
TrackerClient(answers, tx, script, at) ==
    [trackers |-> answers, contacted |-> 0, allPeers |-> {}, finalInterval |-> 0,
     response |-> <<>>, transactionID |-> tx, udpNet |-> script, attempt |-> 0,
     connectionID |-> Uint64(0, 0), upc |-> at, wire |-> <<>>, udpRet |-> <<>>]

\* SendTrackerResponse before its loops, with these trackers to contact
TrackerStart(answers) == TrackerClient(answers, 0, NoScript, "idle")

\* SendTrackerResponse is not running
TrackerIdle == trk = TrackerStart(<<>>)

\* ------------------------------------------------------------------------
\* Specifications
\* ------------------------------------------------------------------------

\* the directory after the handshakes of the first call of ConnectToPeers
\* succeeded with n seeders
FirstConn(k) ==
    [to |-> Seeder(k), call |-> 1, hello |-> GoodHello, peerID |-> GeneratePeerID(FirstDraw)]

Directory(n) == [k \in 1..n |-> Entry(Seeder(k), FirstConn(k))]

\* no call of ConnectToPeers is running
ConnIdle ==
    /\ hsPeers = <<>>
    /\ hsNext = 0
    /\ hsRun = {}
    /\ hsSem = 0
    /\ hsWg = 0
    /\ cpc = "call"

\* Torrent.Files after BuildFileInfo: no file is open
Unopened(info) ==
    [handles |-> [k \in 1..Len(BuildFileInfo(info)) |-> "nil"], sized |-> {},
     fail |-> <<>>]

\* Torrent.Files after the file creation loop (lines 649-666) has gone through
\* every file
Opened(info) ==
    [handles |-> [k \in 1..Len(BuildFileInfo(info)) |-> "open"],
     sized |-> 1..Len(BuildFileInfo(info)), fail |-> <<>>]

\* Both mutexes are free and nobody is inside a section. piece is the piece the
\* writer loop received last, peers the length of the slice the snapshot made,
\* while the writer and the snapshot are inside their sections.
Unlocked ==
    [DownloadMutex |-> Free, PeersMutex |-> Free, scan |-> {}, piece |-> NoPiece,
     peers |-> 0]

\* The first call of ConnectToPeers left n peers in the directory, and
\* RefreshPeer is about to take the first turn of its loop: nothing is
\* downloaded.
Connected(n) ==
    /\ TorrentPeers = Directory(n)
    /\ dialed = { Seeder(k) : k \in 1..n }
    /\ hsOpen = { FirstConn(k) : k \in 1..n }
    /\ cycle = 1
    /\ ConnIdle
    /\ TrackerIdle
    /\ meta = Parsed
    /\ Downloaded = [i \in 0..(Len(Info.Pieces) - 1) |-> FALSE]
    /\ pieceChan = <<>>
    /\ closed = FALSE
    /\ wg = 0
    /\ sem = 0
    /\ spawned = 0
    /\ completed = {}
    /\ writeLog = <<>>
    /\ mu = Unlocked
    /\ ret = "none"

\* StartDownload has taken its snapshot of these n peers: no session runs.
Called(n) ==
    /\ Connected(n)
    /\ pc = [s \in 1..n |-> "idle"]
    /\ Choked = [s \in 1..n |-> TRUE]
    /\ PeerBitfield = [s \in 1..n |-> Nil]
    /\ pieceIndex = [s \in 1..n |-> -1]
    /\ offset = [s \in 1..n |-> 0]
    /\ data = [s \in 1..n |-> <<>>]

\* The state at line 685 of StartDownload: the output files are open, the
\* snapshot holds the n peers of the directory.
StartState(n) ==
    /\ Called(n)
    /\ out = Opened(Info)
    /\ mainpc = IF n = 0 THEN "consume" ELSE "spawn"

\* the trackers cannot be reached: every turn of RefreshPeer fails and sleeps
Offline == tracker = {} /\ net = DownAttempts

InitCommon == StartState(MaxPeers) /\ Offline

Next ==
    \/ \E s \in Peers : Session(s)
    \/ Spawn
    \/ CloseChan
    \/ WritePiece
    \/ Finish

\* The state at line 677 of StartDownload, for the single-file torrent. Every
\* remote peer is free to send anything at any time; the output file takes every
\* write.
Init ==
    /\ Info = SingleFile
    /\ faulty = {}
    /\ remote = [s \in Peers |-> AnyRemote]
    /\ InitCommon

Spec == Init /\ [][Next]_vars

\* The same download, when the peers may also send Piece messages for blocks
\* other than the one asked for.
NextStray == Next \/ \E s \in Peers : ReceiveStray(s)

SpecStray == Init /\ [][NextStray]_vars

\* The single-file torrent on healthy files, from well-behaved seeds and from
\* peers that start with one of the two pieces and announce the other with a
\* Have when they get it.
InitHave ==
    /\ Info = SingleFile
    /\ faulty = {}
    /\ remote \in [Peers -> { GoodRemote(SeedBitfield), LateRemote(<<128>>),
                              LateRemote(<<64>>) }]
    /\ InitCommon

NextHave == Next \/ \E s \in Peers : ReceiveHave(s)

SpecHave == InitHave /\ [][NextHave]_vars

\* the calls of the file creation loop that may fail
FileCalls == { "MkdirAll", "OpenFile", "Truncate" }

\* StartDownload of the multi-file torrent from line 649 on, with seeds that
\* are well-behaved or flaky: the file system takes every call, or fails one
\* call of the creation loop on one file.
InitFiles ==
    /\ Info = MultiFile
    /\ faulty = {}
    /\ remote \in [Peers -> { GoodRemote(SeedBitfield), FlakyRemote(SeedBitfield) }]
    /\ Called(MaxPeers)
    /\ Offline
    /\ mainpc = "files"
    /\ \E f \in { <<>> } \cup ((1..Len(BuildFileInfo(MultiFile))) \X FileCalls) :
          out = [Unopened(MultiFile) EXCEPT !.fail = f]

NextFiles == CreateFiles \/ Next

SpecFiles == InitFiles /\ [][NextFiles]_vars

\* n failing writes
Fails(n) == [i \in 1..n |-> FALSE]

\* The connections of the sessions: the first k writes fail, for k up to the
\* nine writes the Interested loop can make, or the first write succeeds and
\* the j after it fail.
WriteScripts ==
    { Fails(k) : k \in 0..9 } \cup { <<TRUE>> \o Fails(j) : j \in 1..3 }

InitSend ==
    /\ Info = SingleFile
    /\ faulty = {}
    /\ remote \in [Peers -> { WireRemote(script) : script \in WriteScripts }]
    /\ InitCommon

\* The start of the sessions, up to the first Request of each, on seeders that
\* send their Bitfield and Unchoke.
NextSend ==
    \/ Spawn
    \/ \E s \in Peers :
          \/ SendInterestedWire(s)
          \/ InitialWait(s)
          \/ AssignWire(s)
          \/ RequestFailed(s)

SpecSend == InitSend /\ [][NextSend]_vars

\* the peers in the directory when StartDownload is called
Early == MaxPeers - MaxCycles

\* StartDownload of the single-file torrent at line 681, before its snapshot,
\* with seeds that are well-behaved or flaky, while the tracker answers every
\* turn of RefreshPeer with one more seeder.
InitLock ==
    /\ Info = SingleFile
    /\ faulty = {}
    /\ remote \in [Peers -> { GoodRemote(SeedBitfield), FlakyRemote(SeedBitfield) }]
    /\ Connected(Early)
    /\ pc = <<>>
    /\ Choked = <<>>
    /\ PeerBitfield = <<>>
    /\ pieceIndex = <<>>
    /\ offset = <<>>
    /\ data = <<>>
    /\ out = Opened(Info)
    /\ mainpc = "snapshot"
    /\ tracker = { <<Seeder(Early + 1)>> }
    /\ net = DownAttempts \cup { Attempt(FALSE, FALSE, FALSE, GoodHello, FirstDraw) }

\* The download with the critical sections of the two mutexes taken statement
\* by statement.
NextLock ==
    \/ Connect
    \/ SnapshotLock
    \/ SnapshotCopy
    \/ Spawn
    \/ \E s \in 1..NumPeers :
          \/ SendInterested(s)
          \/ InitialWait(s)
          \/ ChokedWait(s)
          \/ AssignLock(s)
          \/ AssignScan(s)
          \/ RequestFailed(s)
          \/ ReceiveBlock(s)
    \/ CloseChan
    \/ WriterReceive
    \/ WriterLock
    \/ WriterWrite
    \/ Finish

SpecLock == InitLock /\ [][NextLock]_vars

\* The multi-file torrent, with seeds that are well-behaved or flaky; one of
\* the output files may fail its writes.
InitDisk ==
    /\ Info = MultiFile
    /\ faulty \in { {} } \cup { { k } : k \in 1..Len(BuildFileInfo(MultiFile)) }
    /\ remote \in [Peers -> { GoodRemote(SeedBitfield), FlakyRemote(SeedBitfield) }]
    /\ InitCommon

SpecDisk == InitDisk /\ [][Next]_vars

\* The single-file torrent on healthy files, with well-behaved and flaky peers
\* of any of the bitfields, such that every piece is set in the bitfield of a
\* well-behaved peer.
ScriptedRemotes ==
    { GoodRemote(b) : b \in BitfieldPayloads }
    \cup { FlakyRemote(b) : b \in BitfieldPayloads }

Covered(r) ==
    \A i \in 0..(NumPiecesOf(SingleFile) - 1) :
       \E s \in Peers : r[s].kind = "good" /\ BitSet(r[s].has, i)

InitLive ==
    /\ Info = SingleFile
    /\ faulty = {}
    /\ remote \in { r \in [Peers -> ScriptedRemotes] : Covered(r) }
    /\ InitCommon

\* Every goroutine that can take a step eventually takes one.
Fairness ==
    /\ \A s \in Peers : WF_vars(Session(s))
    /\ WF_vars(Spawn)
    /\ WF_vars(CloseChan)
    /\ WF_vars(WritePiece)
    /\ WF_vars(Finish)

SpecLive == InitLive /\ [][Next]_vars /\ Fairness

\* More peers than a semaphore has slots.
Crowd == SemCapacity + 1

\* Either the first call of ConnectToPeers left a crowd of peers in the
\* directory, all gone by the time StartDownload runs, and the tracker then
\* answers RefreshPeer with one more seeder; or it left none, and the tracker
\* answers with a crowd of candidates that refuse the connection.
InitCrowd ==
    /\ Info = SingleFile
    /\ faulty = {}
    /\ \/ /\ StartState(Crowd)
          /\ remote = [s \in 1..Crowd |-> DeadRemote]
          /\ tracker = { <<Seeder(Crowd + 1)>> }
          /\ net = AllAttempts
       \/ /\ StartState(0)
          /\ remote = <<>>
          /\ tracker = { [k \in 1..Crowd |-> Seeder(k)] }
          /\ net = DownAttempts

\* With such peers no session gets past its Interested message, and nothing
\* reaches pieceChan.
NextCrowd ==
    \/ Connect
    \/ \E s \in 1..NumPeers : SendInterested(s)
    \/ Spawn
    \/ CloseChan
    \/ Finish

SpecCrowd == InitCrowd /\ [][NextCrowd]_vars

\* StartDownload of the single-file torrent with a crowd of seeds in its
\* snapshot, each of which may send a keep-alive while it serves a piece.
InitJam ==
    /\ Info = SingleFile
    /\ faulty = {}
    /\ StartState(Crowd)
    /\ remote = [s \in 1..Crowd |-> InTurnRemote(SeedBitfield)]
    /\ Offline

\* Every write on the connections of such seeds succeeds.
NextJam ==
    \/ Spawn
    \/ \E s \in 1..NumPeers :
          \/ SendInterested(s)
          \/ InitialWait(s)
          \/ ChokedWait(s)
          \/ Assign(s)
          \/ ReceiveBlock(s)
    \/ CloseChan
    \/ WritePiece
    \/ Finish

SpecJam == InitJam /\ [][NextJam]_vars

\* The download of the multi-file torrent from seeds that are well-behaved or
\* flaky, while the tracker answers every turn of RefreshPeer with one more
\* seeder, whose handshake may meet anything.
InitRefresh ==
    /\ Info = MultiFile
    /\ faulty = {}
    /\ remote \in [Peers -> { GoodRemote(SeedBitfield), FlakyRemote(SeedBitfield) }]
    /\ StartState(MaxPeers)
    /\ tracker = { <<Seeder(MaxPeers + cycle)>> }
    /\ net = AllAttempts

NextRefresh == Next \/ Connect

FairnessRefresh ==
    /\ Fairness
    /\ WF_vars(StartCycle)
    /\ WF_vars(HsSpawn)
    /\ \A k \in 1..Crowd : WF_vars(PerformHandshake(k))
    /\ WF_vars(EndCycle)

SpecRefresh == InitRefresh /\ [][NextRefresh]_vars /\ FairnessRefresh

\* the endpoints the trackers know: the client itself, and two seeders on one
\* host
Swarm == { Addr(ExternalIP, 6881), Seeder(1), Seeder(2) }

\* tracker.go 363-505: a peer list holds an endpoint once
PeerLists ==
    { <<>> } \cup { <<a>> : a \in Swarm }
    \cup { q \in { <<a, b>> : a \in Swarm, b \in Swarm } : q[1] # q[2] }

\* Nothing is connected and StartDownload has not been called: the directory
\* is empty.
Fresh ==
    /\ Info = SingleFile
    /\ faulty = {}
    /\ remote = <<>>
    /\ TorrentPeers = <<>>
    /\ dialed = {}
    /\ hsOpen = {}
    /\ cycle = 0
    /\ ConnIdle
    /\ Downloaded = [i \in 0..(Len(Info.Pieces) - 1) |-> FALSE]
    /\ pc = <<>>
    /\ Choked = <<>>
    /\ PeerBitfield = <<>>
    /\ pieceIndex = <<>>
    /\ offset = <<>>
    /\ data = <<>>
    /\ pieceChan = <<>>
    /\ closed = FALSE
    /\ wg = 0
    /\ sem = 0
    /\ spawned = 0
    /\ completed = {}
    /\ writeLog = <<>>
    /\ out = Unopened(Info)
    /\ mu = Unlocked
    /\ ret = "none"

\* the state of main after SetTorrentFile, before FindConnections
MainStart ==
    /\ Fresh
    /\ meta = Parsed
    /\ mainpc = "main"

\* The state of main before FindConnections and the first call of
\* ConnectToPeers. SpecConnect takes the peer lists FindConnections may return
\* as given.
InitConnect ==
    /\ MainStart
    /\ TrackerIdle
    /\ tracker = PeerLists
    /\ net = AllAttempts

SpecConnect == InitConnect /\ [][Connect]_vars

\* The connection manager from the start of main, when the random source of
\* GeneratePeerID may draw either of two strings in each call.
InitPeerID ==
    /\ MainStart
    /\ TrackerIdle
    /\ tracker = PeerLists
    /\ net = DrawAttempts

SpecPeerID == InitPeerID /\ [][Connect]_vars

\* The download of the multi-file torrent on healthy files from peers of which
\* one at least is a well-behaved seed; the others are seeds, well-behaved or
\* flaky, or peers that only send keep-alives, or that send nothing.
IdleRemotes ==
    { GoodRemote(SeedBitfield), FlakyRemote(SeedBitfield), IdlerRemote, MuteRemote }

InitIdle ==
    /\ Info = MultiFile
    /\ faulty = {}
    /\ remote \in { r \in [Peers -> IdleRemotes] : \E s \in Peers : r[s].kind = "good" }
    /\ InitCommon

SpecIdle == InitIdle /\ [][Next]_vars /\ Fairness

\* Two endpoints on one host, whose ports differ in both bytes, and one on
\* another host whose port is the other's with its bytes swapped
Endpoints == <<<<192, 0, 2, 1, 26, 225>>, <<192, 0, 2, 1, 0, 80>>, <<10, 0, 0, 7, 80, 0>>>>

\* Peer lists of a tracker: empty, of one endpoint, of two, of one endpoint
\* twice, and one whose length is no multiple of six
PeerBytes ==
    { <<>>, Endpoints[1], Endpoints[2] \o Endpoints[3], Endpoints[1] \o Endpoints[2],
      Endpoints[3] \o Endpoints[3], <<192, 0, 2, 1, 26>> }

Intervals == { 0, 900, 1800 }

Answers ==
    { RequestError } \cup { TrackerResponse(p, i) : p \in PeerBytes, i \in Intervals }

\* SendTrackerResponse alone, from the start of main: the trackers of the
\* torrent, in the order of one run, answer with anything of Answers.
InitTracker ==
    /\ MainStart
    /\ tracker = {}
    /\ net = DownAttempts
    /\ \E answers \in UNION { [1..n -> Answers] : n \in 1..MaxTrackers } :
          trk = TrackerStart(answers)

SpecTracker == InitTracker /\ [][SendTrackerResponse]_vars

\* the transaction ids GenerateTransactionID may draw, and the connection ids a
\* tracker may hand out
TransactionIDs == { 1001, 1002 }

ConnectionIDs == { Uint64(7001, 1), Uint64(1, 7001) }

ConnectOutcomes ==
    { WriteFails, NoResponse, ShortDatagram }
    \cup { ConnectDatagram(16, a, t, c) : a \in { 0, 3 }, t \in TransactionIDs,
                                         c \in ConnectionIDs }

AnnounceOutcomes ==
    { WriteFails, NoResponse, ShortDatagram }
    \cup { AnnounceDatagram(a, t, 1800, p) :
             a \in { 1, 3 }, t \in TransactionIDs,
             p \in { Endpoints[1], <<192, 0, 2, 1, 26>> } }

\* SendUDPTrackerRequest alone, after the connect request has been built (line
\* 208): each of the three attempts and the announce meet anything of the above.
InitUDP ==
    /\ MainStart
    /\ tracker = {}
    /\ net = DownAttempts
    /\ \E tx \in TransactionIDs :
          \E c \in [1..MaxAttempts -> ConnectOutcomes] :
             \E a \in AnnounceOutcomes :
                trk = TrackerClient(<<>>, tx, [connect |-> c, announce |-> a], "connect")

SpecUDP == InitUDP /\ [][SendUDPTrackerRequest]_vars

\* bencoding: a string, an integer, and a dictionary of keys with their
\* encoded values
BString(str) == Itoa(Len(str)) \o <<":">> \o str

BInteger(n) == <<"i">> \o Itoa(n) \o <<"e">>

RECURSIVE BEntries(_)
BEntries(entries) ==
    IF entries = <<>> THEN <<>>
    ELSE BString(Head(entries)[1]) \o Head(entries)[2] \o BEntries(Tail(entries))

BDictionary(entries) == <<"d">> \o BEntries(entries) \o <<"e">>

\* piece hashes: twenty bytes, among them digits, ':' and the letters of
\* bencoding
PiecesValues ==
    { <<"a", "b", "c", "d", "e", "f", "g", "h", "i", "j", "k", "l", "m", "n", "o", "p", "q", "r", "s", "t">>,
      <<"3", ":", "a", "b", "i", "5", "e", "d", "1", ":", "e", "l", "4", ":", "e", "e", "d", "d", "0", ":">> }

NameValues ==
    { <<"f", "i", "l", "e">>, <<"d", "e", "l", "i", "1", "e">>, <<"1", "2", ":", "e">>, <<"d">> }

AnnounceValues ==
    { <<"u", "d", "p", ":", "/", "/", "t", ".", "e", "x", "a", "m", "p", "l", "e", ":", "8", "0">>, <<"h", "t", "t", "p", ":", "/", "/", "h", "/", "4", ":", "i", "n", "f", "o">> }

\* no comment, or one of these
CommentValues ==
    { <<>>, <<"d", "l", " ", "1", "e">>, <<"s", "e", "e", " ", "4", ":", "i", "n", "f", "o">>,
      <<"4", ":", "i", "n", "f", "o", "d", "1", ":", "a", "e">>, <<"4", ":", "i", "n", "f", "o", "d", "d">> }

\* the info dictionary of a single-file torrent
InfoDictionary(name, length, pieces) ==
    BDictionary(<< <<<<"l", "e", "n", "g", "t", "h">>, BInteger(length)>>,
                   <<<<"n", "a", "m", "e">>, BString(name)>>,
                   <<<<"p", "i", "e", "c", "e", " ", "l", "e", "n", "g", "t", "h">>, BInteger(16)>>,
                   <<<<"p", "i", "e", "c", "e", "s">>, BString(pieces)>> >>)

\* a well-formed torrent file, with the bytes of its info value
TorrentBytes(announce, comment, info) ==
    [bytes |-> BDictionary(
                  << <<<<"a", "n", "n", "o", "u", "n", "c", "e">>, BString(announce)>> >>
                  \o (IF comment = <<>> THEN <<>>
                      ELSE << <<<<"c", "o", "m", "m", "e", "n", "t">>, BString(comment)>> >>)
                  \o << <<<<"i", "n", "f", "o">>, info>> >>),
     info |-> info,
     decodable |-> TRUE]

WellFormedTorrents ==
    { TorrentBytes(a, c, InfoDictionary(n, l, p)) :
        a \in AnnounceValues, c \in CommentValues, n \in NameValues, l \in { 0, 27 },
        p \in PiecesValues }

\* a bencoded dictionary without an info key, which bencode.Unmarshal decodes
\* into a TorrentFile with an empty Info
NoInfoTorrent ==
    [bytes |-> BDictionary(<< <<<<"a", "n", "n", "o", "u", "n", "c", "e">>, BString(<<"u", "d", "p", ":", "/", "/", "t", ".", "e", "x", "a", "m", "p", "l", "e", ":", "8", "0">>)>> >>),
     info |-> <<>>,
     decodable |-> TRUE]

\* a file cut short, which bencode.Unmarshal rejects
Truncated(f) ==
    [bytes |-> SubSeq(f.bytes, 1, Len(f.bytes) - 2), info |-> <<>>, decodable |-> FALSE]

TorrentFiles ==
    WellFormedTorrents
    \cup { NoInfoTorrent }
    \cup { Truncated(f) : f \in WellFormedTorrents }

\* main from its start, with one tracker that would answer with a peer
InitParse ==
    /\ Fresh
    /\ tracker = {}
    /\ net = DownAttempts
    /\ trk = TrackerStart(<<TrackerResponse(Endpoints[1], 1800)>>)
    /\ \E f \in TorrentFiles : meta = TorrentOnDisk(f)
    /\ mainpc = "start"

SpecParse == InitParse /\ [][Parse \/ SendTrackerResponse]_vars

\* ------------------------------------------------------------------------
\* Properties
\* ------------------------------------------------------------------------

\* Session s is working on piece i: it has selected i in the assignment step
\* and has not yet delivered it, gone back to the loop top or returned.
Working(s, i) == pc[s] \in { "sendfail", "recv" } /\ pieceIndex[s] = i

\* C1 (scheduler safety): in every reachable state, for every piece index i, at
\* most one session is working on i, whatever the peers send.
C1_SchedulerSafety ==
    \A i \in Pieces : \A s, t \in Peers : Working(s, i) /\ Working(t, i) => s = t

\* Piece i has been written: WriteAt was called for it and every call succeeded.
Written(i) ==
    /\ \E k \in 1..Len(writeLog) : writeLog[k].Index = i
    /\ \A k \in 1..Len(writeLog) : writeLog[k].Index = i => writeLog[k].ok

\* C2 (scheduler liveness): with every piece set in the bitfield of a peer that
\* unchokes and answers every Request with the right bytes, under fair
\* scheduling every piece is eventually written and StartDownload returns nil.
C2_SchedulerLiveness ==
    <>(mainpc = "returned" /\ ret = "nil" /\ \A i \in Pieces : Written(i))

\* Session s leaves the block loop with its buffer complete: to the loop top,
\* not by a return.
CompletesBuffer(s) == pc[s] = "recv" /\ pc'[s] \in { "assign", "choked" }

\* The step appends one PieceResult for index i whose data hashes to
\* PieceHashes[i].
DeliversVerified(i) ==
    /\ Len(pieceChan') = Len(pieceChan) + 1
    /\ SubSeq(pieceChan', 1, Len(pieceChan)) = pieceChan
    /\ LET r == pieceChan'[Len(pieceChan')]
       IN r.Index = i /\ sha1Sum(r.Data) = PieceHashes[i]

\* C3 (verify before deliver): a session that completes its buffer for piece i
\* either delivers a PieceResult for i whose data hashes to PieceHashes[i], or
\* delivers nothing and leaves Downloaded[i] = false; nothing else changes the
\* channel except the writer taking its head.
C3_VerifyBeforeDeliver ==
    [][IF \E s \in Peers : CompletesBuffer(s)
       THEN \A s \in Peers :
               CompletesBuffer(s) =>
                  \/ DeliversVerified(pieceIndex[s])
                  \/ pieceChan' = pieceChan /\ ~Downloaded'[pieceIndex[s]]
       ELSE \/ pieceChan' = pieceChan
            \/ pieceChan # <<>> /\ pieceChan' = Tail(pieceChan)]_vars

\* bytes that are not those of the torrent are in the buffer
HasJunk(d) == \E k \in 1..Len(d) : d[k].src = Junk

\* A piece has been delivered, and a session is waiting for the last block of
\* a piece with junk in its buffer: the hash check that follows fails.
C3_Witness ==
    /\ pieceChan # <<>>
    /\ \E s \in Peers :
          /\ pc[s] = "recv"
          /\ HasJunk(data[s])
          /\ offset[s] + blockSize >= pieceLengthOf(pieceIndex[s])

\* C10 (hash mismatch drops the session): a session that completes its buffer
\* and delivers nothing, the hash comparison having failed, terminates.
C10_MismatchDropsSession ==
    [][\A s \in Peers :
          pc[s] = "recv" /\ pc'[s] # "recv" /\ pieceChan' = pieceChan
             => pc'[s] = "done"]_vars

\* C4 (exit status): StartDownload returns nil only if every piece has had its
\* verified bytes successfully written to the output files.
C4_NilOnlyIfAllWritten ==
    mainpc = "returned" /\ ret = "nil" => \A i \in Pieces : Written(i)

\* C5 (idempotent writes): the writer loop writes the data of a piece at most
\* once: no file receives two WriteAt calls for the same piece index.
C5_IdempotentWrites ==
    \A j, k \in 1..Len(writeLog) :
       j < k => ~(/\ writeLog[j].Index = writeLog[k].Index
                  /\ writeLog[j].file = writeLog[k].file)

\* A piece that has been written successfully is at the head of the channel
\* again.
C5_Witness ==
    /\ pieceChan # <<>>
    /\ Head(pieceChan).Index \in completed
    /\ Written(Head(pieceChan).Index)

\* the flat stream's range of piece i, and of file k
PieceRange(i) ==
    [lo |-> i * Info.PieceLength, hi |-> i * Info.PieceLength + TrueLength(Info, i)]

FileRange(k) ==
    LET lo == SumSeq(SubSeq(Info.Files, 1, k - 1))
    IN [lo |-> lo, hi |-> lo + Info.Files[k]]

Intersects(i, k) ==
    Max(PieceRange(i).lo, FileRange(k).lo) < Min(PieceRange(i).hi, FileRange(k).hi)

\* C6 (piece placement): BuildFileInfo's offsets are the running sums of the
\* preceding file lengths; every WriteAt call for piece i on file f carries
\* exactly the bytes of the intersection of the two ranges, at offset
\* max(piece_start, f.Offset) - f.Offset, so that byte k of the flat stream
\* lands at byte k - f.Offset of f; a written piece has one call for each file
\* it intersects and none for the others.
C6_PiecePlacement ==
    /\ \A k \in 1..Len(Info.Files) :
          Files[k] = [Length |-> Info.Files[k], Offset |-> FileRange(k).lo]
    /\ \A j \in 1..Len(writeLog) :
          LET e == writeLog[j]
              lo == Max(PieceRange(e.Index).lo, FileRange(e.file).lo)
              hi == Min(PieceRange(e.Index).hi, FileRange(e.file).hi)
          IN /\ lo < hi
             /\ e.off = lo - FileRange(e.file).lo
             /\ Merge(e.chunk) = <<[src |-> lo, len |-> hi - lo]>>
    /\ \A i \in completed : \A k \in 1..Len(Info.Files) :
          Intersects(i, k) <=>
             \E j \in 1..Len(writeLog) :
                writeLog[j].Index = i /\ writeLog[j].file = k

\* The piece that crosses both file boundaries has been written, to all three
\* files.
C6_Witness ==
    /\ 0 \in completed
    /\ \A k \in 1..3 :
          \E j \in 1..Len(writeLog) :
             writeLog[j].Index = 0 /\ writeLog[j].file = k

\* C8 (piece length rule): the bytes a session requests for piece i are
\* PieceLength for i < NumPieces - 1, and the total size less the other pieces
\* for the last piece, the total size being the sum of the file lengths.
C8_PieceLengthRule ==
    \A s \in Peers :
       pc[s] \in { "sendfail", "recv" } =>
          pieceLengthOf(pieceIndex[s])
             = IF pieceIndex[s] < NumPieces - 1
               THEN PieceLength
               ELSE GetTotalSize(Info) - (NumPieces - 1) * PieceLength

\* the pieces session s may be given: Missing, and set in its peer's bitfield
Eligible(s) == { i \in Pieces : ~Downloaded[i] /\ BitSet(PeerBitfield[s], i) }

\* C7 (assignment policy): the assignment step gives the session the lowest
\* index that is Missing and set in its peer's bitfield and marks it, and only
\* it, in flight; when there is none it marks nothing and the session returns.
C7_AssignmentPolicy ==
    [][\A s \in Peers :
          pc[s] = "assign" /\ pc'[s] # "assign" =>
             IF Eligible(s) = {}
             THEN pc'[s] = "done" /\ Downloaded' = Downloaded /\ wg' = wg - 1
             ELSE \E i \in Eligible(s) :
                     /\ \A j \in Eligible(s) : i <= j
                     /\ pc'[s] \in { "recv", "sendfail" }
                     /\ pieceIndex'[s] = i
                     /\ Downloaded' = [Downloaded EXCEPT ![i] = TRUE]]_vars

\* A session whose peer has only the second piece has been given it while the
\* first piece is Missing.
C7_Witness ==
    \E s \in Peers :
       /\ pc[s] = "recv"
       /\ pieceIndex[s] = 1
       /\ PeerBitfield[s] = <<64>>
       /\ ~Downloaded[0]

\* Session a has been assigned piece i and has one block of it; the connection
\* of its peer is down. Peer b is well-behaved and has advertised i, and its
\* session is running.
FailsAfterOneBlock(a, b, i) ==
    /\ remote[a].kind = "flaky" /\ remote[a].sent = 3
    /\ Working(a, i) /\ offset[a] = blockSize
    /\ a # b
    /\ remote[b].kind = "good" /\ pc[b] \notin { "idle", "done" }
    /\ PeerBitfield[b] = remote[b].has /\ BitSet(remote[b].has, i)

\* C9 (recovery from a failed session): when peers A and B both advertise
\* piece i and A fails after one block of i, the piece is then assigned to the
\* session of B and completed.
C9_Recovery ==
    \A a, b \in Peers : \A i \in 0..(NumPiecesOf(SingleFile) - 1) :
       FailsAfterOneBlock(a, b, i) ~> (Working(b, i) /\ <>Written(i))

\* the frames that make a failure in the block receive loop: a failing read, a
\* length above 1 MiB, a Piece with fewer than 8 bytes of payload
FailureFrames == { ErrFrame, TooLargeFrame, ShortPieceFrame }

\* C11 (session error policy): a session that holds piece i and meets a read
\* failure, a message longer than 1 MiB, a Piece payload shorter than 8 bytes
\* or a failed send returns, with Downloaded[i] false afterwards; a message of
\* exactly 1 MiB is taken as a message and the session goes on.
C11_ErrorPolicy ==
    [][\A s \in Peers :
          /\ pc[s] = "sendfail" /\ pc'[s] # "sendfail" =>
                pc'[s] = "done" /\ ~Downloaded'[pieceIndex[s]]
          /\ pc[s] = "recv" =>
                /\ pc'[s] = "done" => ~Downloaded'[pieceIndex[s]]
                /\ \/ pc'[s] = "done" /\ ~Downloaded'[pieceIndex[s]]
                   \/ \A f \in FailureFrames : ~ReceiveBlockOn(s, f)
                /\ \/ /\ pc'[s] = "recv"
                      /\ pieceIndex'[s] = pieceIndex[s]
                      /\ Downloaded' = Downloaded
                   \/ ~ReceiveBlockOn(s, LargestFrame)]_vars

\* A session holds a piece, marked in flight, and its Request for the first
\* block could not be sent.
C11_Witness ==
    \E s \in Peers : pc[s] = "sendfail" /\ Downloaded[pieceIndex[s]]

\* The step sends a Request of session s: the first of a piece, out of the
\* assignment step, or the next one, after a block.
SendsRequest(s) ==
    \/ pc[s] = "assign" /\ pc'[s] \in { "recv", "sendfail" }
    \/ pc[s] = "recv" /\ pc'[s] = "recv" /\ offset'[s] > offset[s]

\* C12 (requests only while unchoked): a session sends a Request only while
\* peer.Choked is false; none is sent after a Choke until an Unchoke arrives.
C12_RequestOnlyUnchoked ==
    [][\A s \in Peers : SendsRequest(s) => ~Choked[s]]_vars

\* Piece i has passed verification and been handed to the writer: it is in the
\* channel or the writer has taken it.
Verified(i) ==
    \/ i \in completed
    \/ \E k \in 1..Len(pieceChan) : pieceChan[k].Index = i

\* C13 (Verified is terminal): a piece that has been verified and handed to
\* the writer is never Missing again and no session is given it again.
C13_VerifiedIsTerminal ==
    [][\A i \in Pieces :
          Verified(i)'
             => /\ Downloaded'[i]
                /\ \A s \in Peers :
                      Verified(i) /\ pc[s] = "assign" => pieceIndex'[s] # i]_vars

\* the sessions that hold a slot of StartDownload's sem
Running == { s \in 1..NumPeers : pc[s] \notin { "idle", "done" } }

\* C14: at most ten PerformHandshake calls are in progress and at most ten
\* DownloadFromPeer sessions are running; the slots in use of either semaphore
\* are those of the goroutines that are running, so a slot is released on
\* whatever path its goroutine ends; and the candidates that did not get a
\* slot have not been started.
C14_BoundedConcurrency ==
    /\ Cardinality(hsRun) <= SemCapacity
    /\ Cardinality(Running) <= SemCapacity
    /\ hsSem = Cardinality(hsRun)
    /\ sem = Cardinality(Running)
    /\ hsRun \subseteq 1..hsNext
    /\ Running \subseteq 1..spawned

\* ten sessions hold the slots while the spawn loop waits with a peer in hand
C14_Witness ==
    /\ mainpc = "spawn"
    /\ spawned < NumPeers
    /\ Cardinality(Running) = SemCapacity

\* ten handshakes hold the slots while ConnectToPeers waits with a candidate
C14_HandshakesFull ==
    /\ cpc = "loop"
    /\ hsNext < Len(hsPeers)
    /\ Cardinality(hsRun) = SemCapacity

\* C15: the k-th peer of the directory, when it is there while StartDownload
\* is in progress, eventually gets a session of the running download.
C15_RefreshAdmission ==
    \A k \in 1..(MaxPeers + MaxCycles) :
       (Len(TorrentPeers) >= k /\ mainpc # "returned") ~> (k <= spawned)

SameEndpoint(a, b) == a.IP = b.IP /\ a.Port = b.Port

\* C16: no two entries of Torrent.Peers have the same (ip, port), and no
\* handshake is running with an endpoint that an earlier call of ConnectToPeers
\* put into the directory.
C16_PeerDirectoryDedup ==
    /\ \A i, j \in 1..Len(TorrentPeers) :
          i # j => ~SameEndpoint(TorrentPeers[i], TorrentPeers[j])
    /\ \A k \in hsRun : \A i \in 1..Len(TorrentPeers) :
          TorrentPeers[i].Connection.call < cycle
             => ~SameEndpoint(TorrentPeers[i], hsPeers[k])

\* two entries of Torrent.Peers have the same (ip, port)
C16_Duplicate ==
    \E i, j \in 1..Len(TorrentPeers) :
       i # j /\ SameEndpoint(TorrentPeers[i], TorrentPeers[j])

\* C17: once every piece has been written, pieceChan is eventually closed and
\* StartDownload returns, whatever the remaining peers do.
C17_TerminatesOnCompletion ==
    (completed = Pieces) ~> (closed /\ mainpc = "returned")

\* every piece is written while a session still waits for its peer to unchoke
C17_Stuck ==
    /\ completed = Pieces
    /\ pieceChan = <<>>
    /\ \E s \in Peers : pc[s] = "init" /\ remote[s].kind = "idler"
    /\ \A s \in Peers : pc[s] \in { "init", "done" }

\* C17, second sentence: a session whose peer sends nothing ends
C17_MuteSessionEnds ==
    \A s \in Peers : (remote[s].kind = "mute" /\ pc[s] # "idle") ~> (pc[s] = "done")

\* the writer loop takes a piece off pieceChan
WriterTakes(i) ==
    /\ Len(pieceChan') < Len(pieceChan)
    /\ Head(pieceChan).Index = i

\* C18: a piece whose WriteAt failed is Missing afterwards; a delivery of a
\* piece that has no successful write behind it is written to the files, not
\* skipped; and StartDownload does not return nil while a piece lacks a
\* successful write.
C18_WriteFailureRecovery ==
    [][/\ \A i \in Pieces :
             /\ WriterTakes(i) /\ ~Written(i) => writeLog' # writeLog
             /\ WriterTakes(i) /\ writeLog' # writeLog /\ ~Written(i)' => ~Downloaded'[i]
       /\ mainpc' = "returned" /\ ret' = "nil" => \A i \in Pieces : Written(i)']_vars

\* a verified piece whose write failed is delivered again and skipped
C18_SkippedRedelivery ==
    \E i \in Pieces :
       /\ pieceChan # <<>>
       /\ Head(pieceChan).Index = i
       /\ i \in completed
       /\ ~Written(i)

\* the reply passes the three checks: first byte 19, the protocol literal, the
\* local info-hash
PassesChecks(h) ==
    /\ h.ProtocolNameLength = 19
    /\ h.Protocol = "BitTorrent protocol"
    /\ h.InfoHash = InfoHash

C20_NoSelfConnection ==
    [][/\ \A k \in 1..Len(hsPeers) : \A a \in AllAttempts :
             PerformHandshakeOn(k, a) =>
                IF hsPeers[k].IP = ExternalIP
                THEN dialed' = dialed /\ hsOpen' = hsOpen /\ TorrentPeers' = TorrentPeers
                ELSE ~a.extErr => hsPeers[k] \in dialed'
       /\ \A p \in dialed' : p.IP # ExternalIP
       /\ \A i \in 1..Len(TorrentPeers') : TorrentPeers'[i].IP # ExternalIP]_vars

\* the handshake with the client's own address is over, and one with another
\* candidate of the same peer list has dialed
C20_Witness ==
    \E k \in 1..hsNext :
       /\ hsPeers[k].IP = ExternalIP
       /\ k \notin hsRun
       /\ \E j \in 1..hsNext : j # k /\ j \notin hsRun /\ hsPeers[j] \in dialed


\* the trackers of the call that answered, and whose peer list could be parsed
Succeeded ==
    { i \in 1..Len(trackers) :
        ~trackers[i].err /\ ~ParsePeers(trackers[i].Peers).err }

\* SendTrackerResponse returned a TrackerResponse
Returned == response # <<>> /\ ~response[1].err

NonZeroIntervals == { trackers[i].Interval : i \in Succeeded } \ { 0 }

\* C21 (aggregated interval): whenever SendTrackerResponse has returned a
\* response and some tracker that answered reported an interval other than 0,
\* the Interval of the response is the least of the non-zero intervals reported,
\* whatever the order in which the trackers were contacted.
C21_AggregatedInterval ==
    Returned /\ NonZeroIntervals # {}
    => /\ response[1].Interval \in NonZeroIntervals
       /\ \A x \in NonZeroIntervals : response[1].Interval <= x

\* a response with interval 0 although a tracker reported a non-zero interval
C21_ZeroReplaces == Returned /\ NonZeroIntervals # {} /\ response[1].Interval = 0

\* the six-byte entries of a compact peer list
Chunks(bytes) == { SubSeq(bytes, 6 * i - 5, 6 * i) : i \in 1..(Len(bytes) \div 6) }

\* the endpoints the trackers that answered reported
Reported == UNION { Chunks(trackers[i].Peers) : i \in Succeeded }

\* four bytes of IPv4 address and the port, high byte first
EndpointOf(c) == Addr(DottedQuad(SubSeq(c, 1, 4)), c[5] * 256 + c[6])

\* C22 (aggregated peer list): once SendTrackerResponse has returned, it has
\* returned an error exactly when no tracker that answered reported a peer;
\* otherwise the compact list of the response holds each reported endpoint
\* once and nothing else, its length is a multiple of 6, and ParsePeers of it
\* yields each reported endpoint once and nothing else.
C22_AggregatedPeers ==
    response # <<>> =>
        IF response[1].err THEN Reported = {}
        ELSE LET list == response[1].Peers
                 parsed == ParsePeers(list).peers
             IN  /\ Reported # {}
                 /\ Len(list) = 6 * Cardinality(Reported)
                 /\ Chunks(list) = Reported
                 /\ ~ParsePeers(list).err
                 /\ Len(parsed) = Cardinality(Reported)
                 /\ { parsed[i] : i \in 1..Len(parsed) } = { EndpointOf(c) : c \in Reported }

\* a response of two endpoints or more, one of them reported by two trackers
C22_Witness ==
    /\ Returned
    /\ Cardinality(Reported) >= 2
    /\ \E i \in Succeeded : \E j \in Succeeded \ { i } :
          Chunks(trackers[i].Peers) \cap Chunks(trackers[j].Peers) # {}


\* the Write calls of one kind, in the order they were made
RECURSIVE Writes(_, _)
Writes(log, kind) ==
    IF log = <<>> THEN <<>>
    ELSE (IF Head(log).kind = kind THEN <<Head(log)>> ELSE <<>>) \o Writes(Tail(log), kind)

\* the connect attempt got no usable response
AttemptFails(o) == o.wErr \/ o.rErr \/ o.n < 16

\* the connect attempt got a 16-byte response with action 0, the transaction id
\* of the call and connection id c
AttemptSucceeds(o, c) ==
    /\ ~o.wErr /\ ~o.rErr
    /\ o.n = 16 /\ o.action = 0 /\ o.tx = transactionID
    /\ o.connectionID = c

\* C23 (UDP connect retry): the connect request is written at most three
\* times, the j-th time under a deadline of 5, 7, 9 seconds; once the call has
\* returned, if the attempts before the k-th got no response (or failed to
\* write, or got fewer than 16 bytes) and the k-th got a
\* 16-byte response with action 0 and the call's transaction id, one announce
\* has been written, with the connection id of that response; and if all three
\* attempts failed, the call returned an error and no announce was written.
C23_ConnectRetry ==
    LET connects == Writes(wire, "connect")
        announces == Writes(wire, "announce")
    IN  /\ Len(connects) <= 3
        /\ \A j \in 1..Len(connects) : connects[j].deadline = 5 + 2 * (j - 1)
        /\ upc = "done" =>
              /\ \A k \in 1..3 : \A c \in ConnectionIDs :
                    /\ \A j \in 1..(k - 1) : AttemptFails(udpNet.connect[j])
                    /\ AttemptSucceeds(udpNet.connect[k], c)
                    => /\ Len(connects) = k
                       /\ Len(announces) = 1
                       /\ announces[1].connectionID = c
                       /\ announces[1].ok = ~udpNet.announce.wErr
              /\ (\A j \in 1..3 : AttemptFails(udpNet.connect[j]))
                    => /\ udpRet = <<RequestError>>
                       /\ announces = <<>>

\* the call has returned a response after two attempts without a response and
\* a third one that succeeded
C23_Witness ==
    /\ upc = "done"
    /\ udpRet # <<>> /\ ~udpRet[1].err
    /\ udpNet.connect[1] = NoResponse /\ udpNet.connect[2] = NoResponse
    /\ \E c \in ConnectionIDs : AttemptSucceeds(udpNet.connect[3], c)
    /\ Len(Writes(wire, "connect")) = 3
    /\ Len(Writes(wire, "announce")) = 1


\* the local peer-ids on the wire: those of the handshakes written on the
\* connections that are open, and those of the announces written
LocalIDs ==
    { c.peerID : c \in hsOpen }
    \cup { wire[j].peerID : j \in { j \in 1..Len(wire) : wire[j].kind = "announce" } }

\* C24 (peer-id stability): all the handshakes and tracker announces of one run
\* carry the same local peer-id, of 20 bytes, which starts with -GT0001-.
C24_PeerIDStability ==
    /\ \A x \in LocalIDs : \E r \in RandomChars : x = "-GT0001-" \o r /\ Len(r) = 12
    /\ \A x, y \in LocalIDs : x = y

\* two connections are open whose handshakes carried different peer-ids
C24_TwoIDs == \E c, d \in hsOpen : c.peerID # d.peerID


\* C25 (info span extraction): once Parse has returned on a well-formed
\* torrent file, Torrent.Info.InfoHash is the digest of the bytes of the value
\* of the top-level info key, whatever strings the file holds before it or
\* inside it.
C25_InfoSpanExtraction ==
    \A f \in WellFormedTorrents :
       file = f.bytes /\ parseErr # <<>> => ParsedInfoHash = Sum(f.info)

\* Parse has returned on a well-formed file with the bytes 4:info in a string
\* before the info key, and the hash is that of other bytes
C25_WrongSpan ==
    \E f \in WellFormedTorrents :
       /\ file = f.bytes /\ parseErr # <<>>
       /\ ParsedInfoHash # Sum(f.info)
       /\ ParsedInfoHash # ZeroHash

\* the file cannot be decoded, or computeInfoHash fails on it
StartupFailure == ~decodable \/ computeInfoHash(file).err

\* C26 (fatal startup errors): when the file cannot be decoded or its info
\* dictionary cannot be located and hashed, Parse returns an error, the program
\* aborts and no tracker is ever contacted; and no tracker is contacted with an
\* all-zero info-hash.
C26_FatalStartupErrors ==
    /\ StartupFailure /\ parseErr # <<>> => parseErr = <<TRUE>> /\ mainpc = "fatal"
    /\ StartupFailure => contacted = 0
    /\ contacted > 0 => ParsedInfoHash # ZeroHash

\* a tracker has been contacted with the all-zero info-hash
C26_ZeroHashAnnounce == contacted > 0 /\ ParsedInfoHash = ZeroHash

\* session s takes f off its connection in one of its three receive loops and
\* goes on
Receives(s, f) ==
    /\ InitialWaitOn(s, f) \/ ChokedWaitOn(s, f) \/ ReceiveBlockOn(s, f)
    /\ pc'[s] # "done"

\* the flag the claim asks for after f, from the flag before it
ChokeAfter(choked, f) ==
    IF f.length > 0 /\ f.ID = Choke THEN TRUE
    ELSE IF f.length > 0 /\ f.ID = Unchoke THEN FALSE
    ELSE choked

\* C27 (choke tracking): a session starts with peer.Choked true; in the initial
\* wait loop, in the wait for an Unchoke and while blocks are received, a Choke
\* sets the flag, an Unchoke clears it, and no other message and no other step
\* of a live session changes it.
C27_ChokeTracking ==
    /\ \A s \in Peers : Choked[s]
    /\ [][\A s \in Peers :
            /\ \A f \in Frames(s) : Receives(s, f) => Choked'[s] = ChokeAfter(Choked[s], f)
            /\ pc[s] \in { "idle", "interested", "assign" } /\ pc'[s] # "done"
                  => Choked'[s] = Choked[s]]_vars

\* C28 (keep-alive is a no-op): a session that takes a zero-length message off
\* its connection, in any of its receive loops, keeps its choke flag, its remote
\* bitfield, its piece, offset and buffer, leaves the shared Downloaded vector
\* as it is, and waits in the same loop for the next message.
C28_KeepAliveNoOp ==
    [][\A s \in Peers :
          \/ InitialWaitOn(s, KeepAliveFrame)
          \/ ChokedWaitOn(s, KeepAliveFrame)
          \/ ReceiveBlockOn(s, KeepAliveFrame)
          => UNCHANGED <<sessVars, Downloaded>>]_vars

\* a well-behaved peer has sent its Unchoke and a keep-alive and never a Choke,
\* and the session waits for a block of a piece it has given back, choked
C28_ChokedByKeepAlive ==
    \E s \in Peers :
       /\ remote[s].kind = "good" /\ remote[s].sent = 2 /\ remote[s].ka = 1
       /\ pc[s] = "recv" /\ Choked[s]
       /\ ~Downloaded[pieceIndex[s]]

\* C29 (block matching): a Piece message whose index is not the assigned piece
\* or whose begin is not the offset of the outstanding Request is discarded:
\* the session, unless its connection fails, keeps its buffer, its offset and
\* its piece and waits on, nothing is released and nothing is delivered; the
\* block of a Piece message is appended only when both match.
C29_BlockMatching ==
    [][\A s \in Peers : \A f \in StrayPieces(s) :
          ReceiveBlockOn(s, f) /\ pc'[s] # "done"
             => UNCHANGED <<sessVars, Downloaded, pieceChan>>]_vars

\* the buffer of a session in the block loop holds bytes of the torrent that
\* are not those of its piece at their place in the buffer
C29_MisplacedBlock ==
    \E s \in Peers :
       /\ pc[s] = "recv"
       /\ \E j \in 1..Len(data[s]) :
             /\ data[s][j].src # Junk
             /\ data[s][j].src # pieceIndex[s] * PieceLength + (j - 1) * blockSize


\* C30 (Have handling): once a session has received Have(i), in whichever of
\* its loops, bit i of its remote bitfield is set for as long as the session
\* lives: the session has every piece in its remote bitfield that the peer has
\* announced, in its Bitfield or in a Have since.
C30_HaveHandling ==
    \A s \in Peers :
       remote[s].kind = "late" /\ remote[s].sent >= 1 /\ pc[s] # "done"
          => \A i \in Pieces : BitSet(remote[s].has, i) => HasPiece(PeerBitfield[s], i)

\* the peer has announced both pieces, one of them in a Have, a piece is not
\* taken, and the session finds no piece to ask this peer for
C30_HaveLost ==
    \E s \in Peers :
       /\ remote[s].kind = "late" /\ remote[s].has = SeedBitfield
       /\ pc[s] = "assign"
       /\ \E i \in Pieces : ~Downloaded[i]
       /\ SelectPiece(Downloaded, PeerBitfield[s]) = -1


\* the Request session s has outstanding after the step
Outstanding(s) == RequestPayload(pieceIndex'[s], offset'[s])

\* the step ends the block loop of session s with its piece complete
PieceComplete(s) == pc[s] = "recv" /\ pc'[s] \in { "assign", "choked" }

WritesOf(s, id) ==
    Cardinality({ n \in 1..Len(remote[s].written) : remote[s].written[n] = id })

\* the Write calls of session s that have failed
FailedWrites(s) ==
    Cardinality({ n \in 1..Len(remote[s].written) :
                    n <= Len(remote[s].net) /\ ~remote[s].net[n] })

\* C33 (send retry bound): a session writes its Interested at most 3 times and
\* a Request at most 3 times, sleeps 2 seconds once for each write that failed,
\* and is over once 3 writes of a message have failed.
C33_SendRetryBound ==
    \A s \in Peers :
       /\ WritesOf(s, Interested) <= 3
       /\ WritesOf(s, Request) <= 3
       /\ remote[s].slept = FailedWrites(s)
       /\ FailedWrites(s) >= 3 => pc[s] \in { "sendfail", "done" }

\* a session has written its Interested nine times and has returned
C33_NineWrites ==
    \E s \in Peers : WritesOf(s, Interested) = 9 /\ pc[s] = "done"


\* a Write call of session s for its Interested message has succeeded
InterestedSent(s) ==
    \E n \in 1..Len(remote[s].written) :
       /\ remote[s].written[n] = Interested
       /\ n > Len(remote[s].net) \/ remote[s].net[n]

\* C32 (session start): the first message a session writes is Interested; it
\* writes a Request, and holds a piece, only after Interested has been sent and
\* an Unchoke has been received; a session whose Interested could not be sent
\* has returned without writing a Request or taking a piece.
C32_SessionStart ==
    \A s \in Peers :
       /\ remote[s].written # <<>> => remote[s].written[1] = Interested
       /\ WritesOf(s, Request) > 0 \/ pieceIndex[s] # -1
             => InterestedSent(s) /\ remote[s].sent >= 2
       /\ pc[s] \notin { "idle", "interested" } /\ ~InterestedSent(s)
             => pc[s] = "done" /\ WritesOf(s, Request) = 0 /\ pieceIndex[s] = -1

\* one session has written Interested and then its first Request, after the
\* Unchoke; another could not send Interested and has returned
C32_Witness ==
    \E s, t \in Peers :
       /\ pc[s] = "recv" /\ remote[s].written = <<Interested, Request>>
       /\ remote[s].sent = 2
       /\ pc[t] = "done" /\ ~InterestedSent(t) /\ remote[t].written # <<>>


\* C34 (output file lifecycle): when a piece is written every output file has
\* been created and sized; and once StartDownload has returned, with nil, with
\* an incomplete download or because a file could not be created or sized, no
\* file handle it opened is still open.
C34_OutputFileLifecycle ==
    /\ writeLog # <<>> =>
          \A k \in DOMAIN handles :
             /\ k \in sized
             /\ handles[k] = IF mainpc = "returned" THEN "closed" ELSE "open"
    /\ mainpc \in { "returned", "failed" } =>
          \A k \in DOMAIN handles : handles[k] # "open"

\* StartDownload has returned an error from the creation loop and the handle
\* of an earlier file is open
C34_LeakedHandle ==
    /\ mainpc = "failed" /\ ret = "error"
    /\ \E k \in DOMAIN handles : handles[k] = "open"

\* C35: after InitializePieces every read and write of Downloaded is made by
\* the goroutine that holds DownloadMutex: a session inside the range loop of
\* the assignment step holds it, the writer inside its loop body holds it, and
\* it is free when nobody is inside. The select-and-mark step is one critical
\* section: what the range loop has read is still what Downloaded holds, every
\* index it went past is marked or is a piece the peer lacks, so no release
\* and no other assignment came in between. Torrent.Peers is mutated only
\* under PeersMutex: while the snapshot is between its make and its copy, main
\* holds the mutex and the directory still has the length read.
C35_LockDiscipline ==
    /\ \A q \in scan :
          /\ DownloadMutex = q[1]
          /\ \A j \in 0..(q[2] - 1) :
                Downloaded[j] \/ ~HasPiece(PeerBitfield[q[1]], j)
    /\ Cardinality(scan) <= 1
    /\ mainpc = "write" => DownloadMutex = Main /\ scan = {}
    /\ DownloadMutex = Free <=> (scan = {} /\ mainpc # "write")
    /\ mainpc = "copy" => PeersMutex = Main /\ Len(TorrentPeers) = mu.peers
    /\ PeersMutex = Free <=> mainpc # "copy"

\* A session is inside the range loop and has gone past a piece that another
\* session is downloading, while the writer waits for the mutex.
C35_Witness ==
    \E q \in scan : \E s \in 1..NumPeers :
       /\ q[2] >= 1
       /\ s # q[1]
       /\ pc[s] = "recv"
       /\ pieceIndex[s] < q[2]
       /\ HasPiece(PeerBitfield[q[1]], pieceIndex[s])
       /\ mainpc = "lock"

\* Session s holds piece i: it marked i in its assignment step and has not
\* reset it since. A session resets its piece and stays in the block loop only
\* in the Choke case, which sets peer.Choked, and nothing in the block loop
\* clears the flag.
Holds(s, i) == Working(s, i) /\ ~Choked[s]

\* C36: a piece is reset only by the session that holds it: no step takes
\* Downloaded[i] from true to false while another session holds i, before and
\* after the step, or when i has been written. The output files are healthy,
\* so every reset is a session's.
C36_ReleaseByHolder ==
    [][\A i \in Pieces :
          Downloaded[i] /\ ~Downloaded'[i] =>
             /\ ~\E s \in Peers : Holds(s, i) /\ Holds(s, i)'
             /\ i \notin completed]_vars

\* a piece that a session holds is not marked
C36_ResetInFlight ==
    \E i \in Pieces : \E s \in Peers : Holds(s, i) /\ ~Downloaded[i]

\* a PieceResult for piece i is in pieceChan
Queued(i) == \E k \in 1..Len(pieceChan) : pieceChan[k].Index = i

\* C37: a piece that is marked in Downloaded and has not been written is being
\* worked on by a live session or its PieceResult is queued in pieceChan.
C37_NoStrandedPiece ==
    \A i \in Pieces :
       Downloaded[i] /\ ~Written(i) => (\E s \in Peers : Working(s, i)) \/ Queued(i)

\* StartDownload has returned with a piece marked that was never written with
\* success
C37_Stranded ==
    /\ mainpc = "returned"
    /\ \E i \in Pieces : Downloaded[i] /\ ~Written(i) /\ i \in completed

\* Session s is blocked in its send on pieceChan: the channel is full, and
\* whatever arrives is the last block of its piece, with which the piece
\* passes the hash check. The receipt of that block, the check and the send
\* are one step of the session, which cannot be taken.
SendBlocked(s) ==
    /\ pc[s] = "recv"
    /\ Len(pieceChan) >= NumPieces
    /\ offset[s] + blockSize >= pieceLengthOf(pieceIndex[s])
    /\ Frames(s) # {}
    /\ \A f \in Frames(s) :
          LET m == ReceiveMessage(f)
          IN /\ ~m.err /\ ~m.nil
             /\ m.ID = Piece
             /\ m.plen >= 8
             /\ HashMatches(Append2(data[s], m.block), pieceIndex[s])

\* C38: StartDownload does not deadlock: in no reachable state is the main
\* goroutine blocked on a slot of sem, with peers left to spawn, while every
\* running session is blocked in its send on pieceChan.
C38_DeadlockFreedom ==
    ~(/\ mainpc = "spawn"
      /\ spawned < NumPeers
      /\ ~Acquire(sem)
      /\ \A s \in 1..spawned : pc[s] # "done" => SendBlocked(s))

\* the spawn loop has not ended and no step of the download can be taken
C38_Deadlock == mainpc = "spawn" /\ ~ENABLED NextJam

\* C39: pieceChan is closed only after the spawn loop has gone through every
\* peer and every session has returned, so in no state is the channel closed
\* with a session alive that could send on it; and StartDownload evaluates
\* completeness only when the channel is closed and the writer loop has taken
\* everything that was delivered.
C39_CloseOrdering ==
    /\ closed =>
          /\ spawned = NumPeers
          /\ wg = 0
          /\ \A s \in 1..NumPeers : pc[s] = "done"
    /\ mainpc = "returned" => closed /\ pieceChan = <<>>

\* the channel is closed with a delivered piece in it that the writer loop has
\* yet to take
C39_Witness == closed /\ pieceChan # <<>> /\ mainpc = "consume"

\* session s reads a message with this id in one of its two wait loops
Reads(s, id) ==
    \E f \in Frames(s) :
       /\ ~ReceiveMessage(f).err /\ ~ReceiveMessage(f).nil
       /\ ReceiveMessage(f).ID = id
       /\ InitialWaitOn(s, f) \/ ChokedWaitOn(s, f)

\* C40: the assignment step gives a session a piece only in a state where the
\* session has its peer's Bitfield and peer.Choked is false. The Bitfield is
\* there only from a Bitfield message read in the initial wait, and the flag
\* goes from true to false only on an Unchoke message read in a wait loop: a
\* peer that has not sent both gets no piece.
C40_AssignmentPrecondition ==
    [][\A s \in Peers :
          /\ pieceIndex[s] = 0 - 1 /\ pieceIndex'[s] # 0 - 1 =>
                ~Choked[s] /\ PeerBitfield[s] # Nil
          /\ PeerBitfield[s] = Nil /\ PeerBitfield'[s] # Nil => Reads(s, Bitfield)
          /\ Choked[s] /\ ~Choked'[s] => Reads(s, Unchoke)]_vars

\* One session has been assigned a piece, while another has its peer's
\* Bitfield, is still choked, and waits.
C40_Witness ==
    \E s, t \in Peers :
       /\ Working(s, pieceIndex[s]) /\ ~Choked[s]
       /\ pc[t] = "init" /\ PeerBitfield[t] # Nil /\ Choked[t]

====
